---- MODULE Spec2Model ----
(***************************************************************************)
(* Model of scripts/vllm-tool-proxy.py: the vLLM tool-call proxy.          *)
(*                                                                         *)
(* Text is modelled as a sequence of tokens.  Each token stands for a      *)
(* fixed piece of text:                                                    *)
(*   "OPEN"     <tools>                                                    *)
(*   "CLOSE"    </tools>                                                   *)
(*   "NL"       a newline (the only whitespace token)                      *)
(*   "CallObj"  {"name":"get_weather","arguments":{"city":"Austin"}}       *)
(*   "CallStr"  {"name":"lookup","arguments":"{}"}                         *)
(*   "CallList" {"name":"sum","arguments":[1]}                             *)
(*   "CallId"   {"id":"call_7","name":"get_time","arguments":{}}           *)
(*   "NoName"   {"arguments":{}}        a JSON object without "name"       *)
(*   "Number"   42                      JSON, but not an object            *)
(*   "Prose"    The weather is sunny.   not JSON                           *)
(*   "JHead"    {"name":"multi",        first part of a JSON object        *)
(*   "JTail"    "arguments":{}}         last part of that JSON object      *)
(* JSON values are tagged records, so that an absent key, a null and a     *)
(* value of each type stay distinct.                                       *)
(***************************************************************************)
EXTENDS Integers, Sequences, FiniteSets, TLC

\* ------------------------------------------------------------------ bounds
MaxContentLen == 4
MaxMsgs == 2
MaxCeiling == 2
MaxChunks == 2
MaxChoices == 2

\* ------------------------------------------------------------------ text
Tokens == {"OPEN", "CLOSE", "NL", "CallObj", "CallStr", "CallList", "CallId",
           "NoName", "Number", "Prose", "JHead", "JTail"}

SeqsUpTo(S, n) == UNION {[1..k -> S] : k \in 0..n}

IsSpace(t) == t = "NL"

\* str.strip(): the text without its leading and trailing whitespace
Strip(s) ==
    LET solid == {i \in 1..Len(s) : ~IsSpace(s[i])}
    IN IF solid = {} THEN <<>>
       ELSE SubSeq(s, CHOOSE i \in solid : \A j \in solid : i <= j,
                      CHOOSE i \in solid : \A j \in solid : i >= j)

\* str.split('\n'): always at least one (possibly empty) line
SplitLines(s) ==
    LET nls == {i \in 1..Len(s) : s[i] = "NL"}
        n == Cardinality(nls)
        \* the position of the k-th newline; 0 and Len(s) + 1 bracket the text
        pos(k) == IF k = 0 THEN 0
                  ELSE IF k = n + 1 THEN Len(s) + 1
                  ELSE CHOOSE p \in nls : Cardinality({q \in nls : q < p}) = k - 1
    IN [k \in 1..(n + 1) |-> SubSeq(s, pos(k - 1) + 1, pos(k) - 1)]

\* '\n'.join(lines)
JoinLines(lines) ==
    LET n == Len(lines)
        end[k \in 0..n] == IF k = 0 THEN 0 ELSE end[k - 1] + Len(lines[k]) + 1
        line(i) == CHOOSE k \in 1..n : end[k - 1] < i /\ i <= end[k]
    IN IF n = 0 THEN <<>>
       ELSE [i \in 1..(end[n] - 1) |->
                IF i = end[line(i)] THEN "NL" ELSE lines[line(i)][i - end[line(i) - 1]]]

\* the concatenation of a list of lists
Flatten(ss) ==
    LET n == Len(ss)
        end[k \in 0..n] == IF k = 0 THEN 0 ELSE end[k - 1] + Len(ss[k])
        part(i) == CHOOSE k \in 1..n : end[k - 1] < i /\ i <= end[k]
    IN [i \in 1..end[n] |-> ss[part(i)][i - end[part(i) - 1]]]

\* TOOLS_REGEX = <tools>(.*?)</tools> with DOTALL: the leftmost match at or
\* after position from, as <<open, close>>, or <<0, 0>> when there is none.
ToolsMatchFrom(s, from) ==
    LET opens == {i \in from..Len(s) :
                     s[i] = "OPEN" /\ \E j \in (i + 1)..Len(s) : s[j] = "CLOSE"}
    IN IF opens = {} THEN <<0, 0>>
       ELSE LET i == CHOOSE k \in opens : \A m \in opens : k <= m
                j == CHOOSE k \in (i + 1)..Len(s) :
                         s[k] = "CLOSE" /\ \A m \in (i + 1)..(k - 1) : s[m] # "CLOSE"
            IN <<i, j>>

\* the successive non-overlapping matches of TOOLS_REGEX
ToolsMatches(s) ==
    LET after[k \in 0..Len(s)] ==
            \* the matches that start after position Len(s) - k
            LET m == ToolsMatchFrom(s, Len(s) - k + 1)
            IN IF m = <<0, 0>> THEN <<>>
               ELSE <<m>> \o after[Len(s) - m[2]]
    IN after[Len(s)]

\* TOOLS_REGEX.findall(content): the captured groups
ToolsFindAll(s) ==
    LET ms == ToolsMatches(s)
    IN [k \in 1..Len(ms) |-> SubSeq(s, ms[k][1] + 1, ms[k][2] - 1)]

\* TOOLS_REGEX.sub('', content)
ToolsSub(s) ==
    LET ms == ToolsMatches(s)
        keep(i) == \A k \in 1..Len(ms) : i < ms[k][1] \/ i > ms[k][2]
        kept == SelectSeq([i \in 1..Len(s) |-> <<i, s[i]>>], LAMBDA p : keep(p[1]))
    IN [i \in 1..Len(kept) |-> kept[i][2]]

\* ------------------------------------------------------------------ JSON
\* A JSON value of the kinds that occur as "arguments".
ArgObject == [t |-> "dict", v |-> "city=Austin"]
ArgEmptyObject == [t |-> "dict", v |-> ""]
ArgString == [t |-> "str", v |-> "{}"]
ArgList == [t |-> "list", v |-> "1"]

\* json.dumps of a dict-valued arguments field: a string
JsonDumpsArgs(a) ==
    [t |-> "str", v |-> IF a.v = "" THEN "{}" ELSE "{\"city\": \"Austin\"}"]

\* json.loads(text) on stripped text.  kind is "dict" for a JSON object,
\* "other" for any other JSON value, "error" when json.loads raises; hasId
\* says whether the object has an "id" member.
JsonLoads(text) ==
    LET body == Strip(text)
        inner == IF Len(body) >= 2 THEN SubSeq(body, 2, Len(body) - 1) ELSE <<>>
        bad == [kind |-> "error", hasName |-> FALSE, name |-> "",
                hasArgs |-> FALSE, args |-> ArgEmptyObject, hasId |-> FALSE]
    IN IF body = <<"CallObj">> THEN
           [kind |-> "dict", hasName |-> TRUE, name |-> "get_weather",
            hasArgs |-> TRUE, args |-> ArgObject, hasId |-> FALSE]
       ELSE IF body = <<"CallStr">> THEN
           [kind |-> "dict", hasName |-> TRUE, name |-> "lookup",
            hasArgs |-> TRUE, args |-> ArgString, hasId |-> FALSE]
       ELSE IF body = <<"CallList">> THEN
           [kind |-> "dict", hasName |-> TRUE, name |-> "sum",
            hasArgs |-> TRUE, args |-> ArgList, hasId |-> FALSE]
       ELSE IF body = <<"CallId">> THEN
           [kind |-> "dict", hasName |-> TRUE, name |-> "get_time",
            hasArgs |-> TRUE, args |-> ArgEmptyObject, hasId |-> TRUE]
       ELSE IF body = <<"NoName">> THEN
           [kind |-> "dict", hasName |-> FALSE, name |-> "",
            hasArgs |-> TRUE, args |-> ArgEmptyObject, hasId |-> FALSE]
       ELSE IF body = <<"Number">> THEN
           [kind |-> "other", hasName |-> FALSE, name |-> "",
            hasArgs |-> FALSE, args |-> ArgEmptyObject, hasId |-> FALSE]
       ELSE IF /\ Len(body) >= 2
               /\ body[1] = "JHead"
               /\ body[Len(body)] = "JTail"
               /\ \A i \in 1..Len(inner) : IsSpace(inner[i]) THEN
           \* whitespace between the members of an object is insignificant
           [kind |-> "dict", hasName |-> TRUE, name |-> "multi",
            hasArgs |-> TRUE, args |-> ArgEmptyObject, hasId |-> FALSE]
       ELSE bad

\* ------------------------------------------------------------------ values
\* A message's content: the key absent, null, or a string (a token sequence).
AbsentContent == [k |-> "absent", s |-> <<>>]
NullContent == [k |-> "null", s |-> <<>>]
StrContent(s) == [k |-> "str", s |-> s]

\* A message's tool_calls: the key absent, null, or a list.
AbsentCalls == [k |-> "absent", l |-> <<>>]
NullCalls == [k |-> "null", l |-> <<>>]
ListCalls(l) == [k |-> "list", l |-> l]

\* An identifier: uuid4 draws are modelled as distinct naturals.
Uuid(n) == [src |-> "uuid", n |-> n]
UpstreamId(n) == [src |-> "upstream", n |-> n]

\* The "id" member of the candidate object of token "CallId".
CandidateId == [src |-> "candidate", n |-> 7]

NoCall == [id |-> Uuid(0), type |-> "none",
           function |-> [name |-> "", arguments |-> ArgEmptyObject]]

\* ------------------------------------------------------------------ extractor
\* as parse_single_tool_call, keeping the "id" of a candidate that has one
parse_single_tool_call_KeepId(text, u) ==
    LET stripped == Strip(text)
        call == JsonLoads(stripped)
        args == IF call.hasArgs THEN call.args ELSE ArgEmptyObject
    IN IF stripped = <<>> THEN [found |-> FALSE, call |-> NoCall]
       ELSE IF call.kind = "dict" /\ call.hasName THEN
           [found |-> TRUE,
            call |-> [id |-> IF call.hasId THEN CandidateId ELSE Uuid(u),
                      type |-> "function",
                      function |-> [name |-> call.name,
                                    arguments |-> IF args.t = "dict"
                                                  THEN JsonDumpsArgs(args)
                                                  ELSE args]]]
       ELSE [found |-> FALSE, call |-> NoCall]

\* parse_single_tool_call(text); u is the uuid4 drawn for the call's id.
\* found = FALSE stands for the return value None.
parse_single_tool_call(text, u) ==
    LET stripped == Strip(text)
        call == JsonLoads(stripped)
        args == IF call.hasArgs THEN call.args ELSE ArgEmptyObject
    IN IF stripped = <<>> THEN [found |-> FALSE, call |-> NoCall]
       ELSE IF call.kind = "dict" /\ call.hasName THEN
           [found |-> TRUE,
            call |-> [id |-> Uuid(u), type |-> "function",
                      function |-> [name |-> call.name,
                                    arguments |-> IF args.t = "dict"
                                                  THEN JsonDumpsArgs(args)
                                                  ELSE args]]]
       ELSE [found |-> FALSE, call |-> NoCall]

\* as ParsedCalls, with the scan ending at the first candidate that is not a
\* tool call
ParsedCalls_StopAtInvalid(cands) ==
    LET bad == {k \in 1..Len(cands) : ~parse_single_tool_call(cands[k], 0).found}
        upto == IF bad = {} THEN Len(cands)
                ELSE (CHOOSE k \in bad : \A m \in bad : k <= m) - 1
    IN [k \in 1..upto |-> parse_single_tool_call(cands[k], k).call]

\* The calls parse_single_tool_call yields over a list of candidate texts, in
\* order; each call gets its own uuid.
ParsedCalls(cands) ==
    LET good == SelectSeq(cands, LAMBDA c : parse_single_tool_call(c, 0).found)
    IN [k \in 1..Len(good) |-> parse_single_tool_call(good[k], k).call]

\* Strategy 1: every line of every <tools> block
StrategyTagged(content) ==
    LET matches == ToolsFindAll(content)
    IN ParsedCalls(Flatten([k \in 1..Len(matches) |-> SplitLines(Strip(matches[k]))]))

\* Strategy 2: the entire content is one tool call
StrategyBare(content) == ParsedCalls(<<Strip(content)>>)

\* Strategy 3: one tool call per line
StrategyMultiLine(content) == ParsedCalls(SplitLines(Strip(content)))

\* as FirstNonEmpty, without the two "if not extracted_calls:" guards
FirstNonEmpty_AllStrategies(s1, s2, s3) == s1 \o s2 \o s3

\* "if not extracted_calls:" twice: the first non-empty list of the three
FirstNonEmpty(s1, s2, s3) ==
    IF s1 # <<>> THEN s1 ELSE IF s2 # <<>> THEN s2 ELSE s3

\* extracted_calls after the three strategies (lines 173-197)
ExtractedCalls(content) ==
    FirstNonEmpty(StrategyTagged(content), StrategyBare(content),
                  StrategyMultiLine(content))

\* the cleaned content (lines 202-207)
CleanedContent(content) ==
    LET cleaned == Strip(ToolsSub(content))
        remaining == SelectSeq(SplitLines(cleaned),
                               LAMBDA line : ~parse_single_tool_call(line, 0).found)
    IN Strip(JoinLines(remaining))

\* msg.get('content', '') or ''
ContentOrEmpty(msg) == IF msg.content.k = "str" THEN msg.content.s ELSE <<>>

\* msg.get('tool_calls') or []
CallsOrEmpty(msg) == IF msg.tool_calls.k = "list" THEN msg.tool_calls.l ELSE <<>>

\* as WithExtracted, with the content cleanup of lines 202-209 done outside
\* the "if extracted_calls:" block
WithExtracted_AlwaysClean(choice, extracted_calls, cleaned) ==
    IF extracted_calls = <<>>
    THEN [choice EXCEPT
             !.message.content = IF cleaned # <<>> THEN StrContent(cleaned)
                                 ELSE NullContent]
    ELSE [choice EXCEPT
             !.message.content = IF cleaned # <<>> THEN StrContent(cleaned)
                                 ELSE NullContent,
             !.message.tool_calls = ListCalls(extracted_calls),
             !.finish_reason = "tool_calls"]

\* as WithExtracted, without line 211
WithExtracted_KeepFinish(choice, extracted_calls, cleaned) ==
    IF extracted_calls = <<>> THEN choice
    ELSE [choice EXCEPT
             !.message.content = IF cleaned # <<>> THEN StrContent(cleaned)
                                 ELSE NullContent,
             !.message.tool_calls = ListCalls(extracted_calls)]

\* lines 199-211: the choice once extracted_calls and cleaned are known
WithExtracted(choice, extracted_calls, cleaned) ==
    IF extracted_calls = <<>> THEN choice
    ELSE [choice EXCEPT
             !.message.content = IF cleaned # <<>> THEN StrContent(cleaned)
                                 ELSE NullContent,
             !.message.tool_calls = ListCalls(extracted_calls),
             !.finish_reason = "tool_calls"]

\* as ExtractChoice, with line 170 testing the content alone
ExtractChoice_IgnoreExisting(choice) ==
    IF Strip(ContentOrEmpty(choice.message)) = <<>>
    THEN choice
    ELSE WithExtracted(choice,
                       ExtractedCalls(ContentOrEmpty(choice.message)),
                       CleanedContent(ContentOrEmpty(choice.message)))

\* the body of the loop over choices in extract_tools_from_content
ExtractChoice(choice) ==
    IF \/ CallsOrEmpty(choice.message) # <<>>
       \/ Strip(ContentOrEmpty(choice.message)) = <<>>
    THEN choice
    ELSE WithExtracted(choice,
                       ExtractedCalls(ContentOrEmpty(choice.message)),
                       CleanedContent(ContentOrEmpty(choice.message)))

extract_tools_from_content(response_json) ==
    [response_json EXCEPT
        !.choices = [i \in 1..Len(response_json.choices) |->
                        ExtractChoice(response_json.choices[i])]]

\* ------------------------------------------------------------------ results
\* A message; extras says whether it carries keys only vLLM emits
\* (reasoning, reasoning_content, refusal, annotations, audio, function_call).
Message(content, calls, extras) ==
    [role |-> "assistant", content |-> content, tool_calls |-> calls,
     extras |-> extras]

\* A choice; extras says whether it carries stop_reason / token_ids.
Choice(index, msg, finish, extras) ==
    [index |-> index, message |-> msg, finish_reason |-> finish, extras |-> extras]

\* usage: the key absent, or an object; details says whether it carries
\* prompt_tokens_details.
AbsentUsage == [k |-> "absent", details |-> FALSE]
Usage(details) == [k |-> "dict", details |-> details]

\* A JSON object as the upstream returns it or the proxy builds it: a
\* chat.completion, or an error object (no choices).  extras says whether it
\* carries top-level keys only vLLM emits (prompt_logprobs, ...).
Completion(id, choices, usage, extras) ==
    [object |-> "chat.completion", id |-> id, model |-> "m",
     choices |-> choices, usage |-> usage, extras |-> extras]

ErrorObject(what) ==
    [object |-> "error", id |-> what, model |-> "",
     choices |-> <<>>, usage |-> AbsentUsage, extras |-> FALSE]

NoCompletion == Completion("none", <<>>, AbsentUsage, FALSE)

\* ------------------------------------------------------------------ normalizer
\* as CleanChoice, leaving an empty or null tool_calls in place
CleanChoice_KeepEmptyCalls(choice) ==
    [choice EXCEPT !.extras = FALSE, !.message.extras = FALSE]

\* as CleanChoice, skipping the message of a choice that had choice-level keys
\* to strip (a "continue" after lines 135-136)
CleanChoice_SkipMessage(choice) ==
    IF choice.extras THEN [choice EXCEPT !.extras = FALSE]
    ELSE [choice EXCEPT
             !.message.extras = FALSE,
             !.message.tool_calls = IF CallsOrEmpty(choice.message) = <<>>
                                    THEN AbsentCalls
                                    ELSE choice.message.tool_calls]

CleanChoice(choice) ==
    LET msg == choice.message
    IN [choice EXCEPT
           !.extras = FALSE,
           !.message.extras = FALSE,
           !.message.tool_calls = IF CallsOrEmpty(msg) = <<>> THEN AbsentCalls
                                  ELSE msg.tool_calls]

clean_response_for_openclaw(resp_json) ==
    [resp_json EXCEPT
        !.extras = FALSE,
        !.choices = [i \in 1..Len(resp_json.choices) |->
                        CleanChoice(resp_json.choices[i])],
        !.usage = IF resp_json.usage.k = "dict" THEN Usage(FALSE)
                  ELSE resp_json.usage]

\* ------------------------------------------------------------------ SSE emitter
AbsentDelta == [role |-> "absent", content |-> AbsentContent, tool_calls |-> AbsentCalls]

\* One "data: <json>\n\n" event.  choices is "one" (a single choice with the
\* given index, delta and finish_reason) or "none" (an empty choices list).
Chunk(rj, choices, delta, finish, usage) ==
    [done |-> FALSE, id |-> rj.id, model |-> rj.model, choices |-> choices,
     index |-> 0, delta |-> delta, finish_reason |-> finish, usage |-> usage]

\* "data: [DONE]\n\n"
DoneEvent ==
    [done |-> TRUE, id |-> "", model |-> "", choices |-> "none",
     index |-> 0, delta |-> AbsentDelta, finish_reason |-> "null",
     usage |-> AbsentUsage]

\* as ToolCallChunks, with each call split over two chunks: the id and name
\* with empty arguments, then the arguments
ToolCallChunks_TwoChunks(rj, tool_calls) ==
    [j \in 1..(2 * Len(tool_calls)) |->
        Chunk(rj, "one",
              [AbsentDelta EXCEPT
                  !.tool_calls =
                      ListCalls(<<[index |-> (j - 1) \div 2,
                                   id |-> tool_calls[(j + 1) \div 2].id,
                                   type |-> "function",
                                   function |->
                                       IF j % 2 = 1
                                       THEN [name |-> tool_calls[(j + 1) \div 2].function.name,
                                             arguments |-> [t |-> "str", v |-> ""]]
                                       ELSE [name |-> "",
                                             arguments |->
                                                 tool_calls[(j + 1) \div 2].function.arguments]]>>)],
              "null", AbsentUsage)]

ToolCallChunks(rj, tool_calls) ==
    [i \in 1..Len(tool_calls) |->
        Chunk(rj, "one",
              [AbsentDelta EXCEPT
                  !.tool_calls = ListCalls(<<[index |-> i - 1,
                                              id |-> tool_calls[i].id,
                                              type |-> "function",
                                              function |-> tool_calls[i].function]>>)],
              "null", AbsentUsage)]

\* as ChoiceChunks, with the tool-call block placed before the content block
ChoiceChunks_CallsBeforeContent(rj, choice) ==
    <<Chunk(rj, "one",
            [AbsentDelta EXCEPT !.role = "assistant", !.content = StrContent(<<>>)],
            "null", AbsentUsage)>>
    \o ToolCallChunks(rj, CallsOrEmpty(choice.message))
    \o (IF choice.message.content.k = "str" /\ choice.message.content.s # <<>>
        THEN <<Chunk(rj, "one", [AbsentDelta EXCEPT !.content = choice.message.content],
                     "null", AbsentUsage)>>
        ELSE <<>>)
    \o <<Chunk(rj, "one", AbsentDelta, choice.finish_reason, AbsentUsage)>>

\* the chunks generate() yields for one choice (lines 230-307)
ChoiceChunks(rj, choice) ==
    LET msg == choice.message
        content_text == msg.content
        tool_calls == CallsOrEmpty(msg)
    IN <<Chunk(rj, "one",
               [AbsentDelta EXCEPT !.role = "assistant", !.content = StrContent(<<>>)],
               "null", AbsentUsage)>>
       \o (IF content_text.k = "str" /\ content_text.s # <<>>
           THEN <<Chunk(rj, "one", [AbsentDelta EXCEPT !.content = content_text],
                        "null", AbsentUsage)>>
           ELSE <<>>)
       \o ToolCallChunks(rj, tool_calls)
       \o <<Chunk(rj, "one", AbsentDelta, choice.finish_reason, AbsentUsage)>>

convert_to_sse_stream(resp_json) ==
    Flatten([i \in 1..Len(resp_json.choices) |->
                ChoiceChunks(resp_json, resp_json.choices[i])])
    \o (IF resp_json.usage.k = "dict"
        THEN <<Chunk(resp_json, "none", AbsentDelta, "null", resp_json.usage)>>
        ELSE <<>>)
    \o <<DoneEvent>>

\* ------------------------------------------------------------------ bytes
\* A body as bytes: the JSON text of val in some layout, or bytes that are not
\* JSON.  json.dumps writes ", " and ": " separators ("pydumps"); vLLM writes
\* its bodies without the spaces ("compact").
Bytes(fmt, val) == [fmt |-> fmt, val |-> val]

NoBytes == Bytes("empty", NoCompletion)

Garbage == Bytes("garbage", NoCompletion)

\* Bytes that are JSON but not an object ([1], say): resp.json() returns and
\* resp_json.get raises (line 391 or 438).
JsonList == Bytes("list", NoCompletion)

\* resp.json() returns a JSON object, so that the inner try block goes through
Parses(raw) == raw.fmt \in {"compact", "pydumps"}

\* json.dumps(obj)
JsonDumps(obj) == Bytes("pydumps", obj)

\* ------------------------------------------------------------------ requests
\* A message of the request's history.
HistoryMessages == [k : {"dict"}, role : {"user", "tool"}, tool_call_id : BOOLEAN]

\* An entry of messages that is not a JSON object (a string, say).
NonObjectEntry == [k |-> "str", role |-> "", tool_call_id |-> FALSE]

\* The parsed request body: None, or an object.  tools is absent, an empty
\* list or a non-empty list; stream is absent, true or false; stream_options
\* says whether the key is present; extras says whether the body carries
\* model and other pass-through keys (temperature, max_tokens, ...).
NoBody ==
    [kind |-> "none", messages |-> <<>>, tools |-> "absent", stream |-> "absent",
     stream_options |-> FALSE, extras |-> FALSE]

Bodies ==
    [kind : {"dict"}, messages : SeqsUpTo(HistoryMessages, MaxMsgs),
     tools : {"absent", "empty", "some"}, stream : {"absent", "true", "false"},
     stream_options : BOOLEAN, extras : BOOLEAN]

\* A JSON body that is not an object: a non-empty list.
NonObjectBody ==
    [kind |-> "list", messages |-> <<>>, tools |-> "absent", stream |-> "absent",
     stream_options |-> FALSE, extras |-> FALSE]

\* The chat bodies the code does not expect: a body that is not an object, and
\* objects whose messages hold an entry that is not an object.
MalformedBodies ==
    {NonObjectBody}
    \cup {b \in [kind : {"dict"},
                 messages : SeqsUpTo(HistoryMessages \cup {NonObjectEntry}, MaxMsgs),
                 tools : {"absent", "some"}, stream : {"true", "false"},
                 stream_options : {FALSE}, extras : {FALSE}] :
              \E i \in 1..Len(b.messages) : b.messages[i] = NonObjectEntry}

\* as ChatPaths, with the chat-completion path alone
ChatPaths_ChatOnly == {"chat/completions"}

\* proxy() line 338: the paths that go through the pipeline
ChatPaths == {"chat/completions", "responses"}

has_tools(body) == body.kind = "dict" /\ body.tools = "some"

count_tool_results(messages) ==
    Cardinality({i \in 1..Len(messages) :
                    messages[i].role = "tool" \/ messages[i].tool_call_id})

\* lines 347-348 raise AttributeError: body.get on a body that is not an
\* object (has_tools, line 57), or msg.get on an entry of messages that is not
\* an object (count_tool_results, line 66, reached only when tools are declared)
ProxyRaises(body) ==
    \/ body.kind = "list"
    \/ /\ has_tools(body)
       /\ \E i \in 1..Len(body.messages) : body.messages[i].k # "dict"

\* as LoopAbort, with an empty tool_calls list in the message
LoopAbort_EmptyCalls ==
    Completion("chatcmpl-loop-abort",
               <<[index |-> 0,
                  message |-> [role |-> "assistant",
                               content |-> StrContent(<<"LoopNotice">>),
                               tool_calls |-> ListCalls(<<>>), extras |-> FALSE],
                  finish_reason |-> "stop", extras |-> FALSE]>>,
               AbsentUsage, FALSE)

\* the completion check_tool_loop builds when the limit is reached
LoopAbort ==
    Completion("chatcmpl-loop-abort",
               <<[index |-> 0,
                  message |-> [role |-> "assistant",
                               content |-> StrContent(<<"LoopNotice">>),
                               tool_calls |-> AbsentCalls, extras |-> FALSE],
                  finish_reason |-> "stop", extras |-> FALSE]>>,
               AbsentUsage, FALSE)

\* as check_tool_loop, comparing with > instead of >=
check_tool_loop_Strict(body, limit) ==
    count_tool_results(body.messages) > limit

\* check_tool_loop(body) returns a completion (TRUE) or None (FALSE)
check_tool_loop(body, limit) ==
    count_tool_results(body.messages) >= limit

\* proxy() line 347: the loop guard answers the request
LoopGuardFires(body, limit) ==
    has_tools(body) /\ check_tool_loop(body, limit)

\* proxy() line 353
was_streaming(body) == body.kind = "dict" /\ body.stream = "true"

\* as ForcedBody, building the non-streaming body anew from messages and tools
\* instead of changing the parsed body in place
ForcedBody_Rebuilt(body) ==
    IF has_tools(body) /\ was_streaming(body)
    THEN [body EXCEPT !.stream = "false", !.stream_options = FALSE, !.extras = FALSE]
    ELSE body

\* proxy() lines 356-359
ForcedBody(body) ==
    IF has_tools(body) /\ was_streaming(body)
    THEN [body EXCEPT !.stream = "false", !.stream_options = FALSE]
    ELSE body

\* proxy() line 361, on the body after lines 356-359
is_streaming(body) == body.kind = "dict" /\ body.stream = "true"

\* as StrippedBody, without lines 364-366
StrippedBody_Keep(body) == body

\* proxy() lines 364-366
StrippedBody(body) ==
    IF body.kind = "dict" /\ body.stream # "true" /\ body.stream_options
    THEN [body EXCEPT !.stream_options = FALSE]
    ELSE body

\* the body proxy() hands to the forwarding function
ForwardedBody(body) == StrippedBody(ForcedBody(body))

\* as Handler, without the elif branch of lines 372-375
Handler_NoRewrap(body) ==
    IF is_streaming(ForcedBody(body)) THEN "stream_response"
    ELSE "forward_with_body_and_fix"

\* proxy() lines 370-377: the forwarding function chosen
Handler(body) ==
    IF is_streaming(ForcedBody(body)) THEN "stream_response"
    ELSE IF was_streaming(body) /\ has_tools(body) THEN "forward_fix_and_rewrap_sse"
    ELSE "forward_with_body_and_fix"

\* ------------------------------------------------------------------ responses
\* What the client gets: a status, a mimetype and a body that is bytes sent at
\* once ("bytes"), the events of convert_to_sse_stream ("sse"), or chunks
\* passed on as they arrive ("stream": see delivered).
Response(status, mimetype, form, raw, events) ==
    [status |-> status, mimetype |-> mimetype, form |-> form, raw |-> raw,
     events |-> events]

NoResponse == Response(0, "", "none", NoBytes, <<>>)

\* What Flask answers when proxy() raises: its 500 Internal Server Error page.
InternalServerError == Response(500, "text/html", "bytes", Garbage, <<>>)

\* as GatewayError, with the status left at Flask's default for an error page
GatewayError_Status500 ==
    Response(500, "application/json", "bytes", JsonDumps(ErrorObject("exception")), <<>>)

\* Response(json.dumps({'error': str(e)}), status=502, mimetype='application/json')
GatewayError ==
    Response(502, "application/json", "bytes", JsonDumps(ErrorObject("exception")), <<>>)

\* as Fixed, extracting whether or not the request has tools
Fixed_AlwaysExtract(body, raw) ==
    clean_response_for_openclaw(extract_tools_from_content(raw.val))

\* resp_json after extraction and cleaning (lines 385-388 and 432-435)
Fixed(body, raw) ==
    clean_response_for_openclaw(
        IF has_tools(body) THEN extract_tools_from_content(raw.val) ELSE raw.val)

\* forward_with_body_and_fix once the upstream has answered
forward_with_body_and_fix(body, status, raw) ==
    IF Parses(raw)
    THEN Response(status, "application/json", "bytes", JsonDumps(Fixed(body, raw)), <<>>)
    ELSE Response(status, "text/html", "bytes", raw, <<>>)

\* as forward_fix_and_rewrap_sse, with the inner except clause answering as
\* the outer one does
forward_fix_and_rewrap_sse_ErrorOnBadBody(body, status, raw) ==
    IF Parses(raw)
    THEN Response(200, "text/event-stream", "sse", NoBytes,
                  convert_to_sse_stream(Fixed(body, raw)))
    ELSE Response(502, "application/json", "bytes", JsonDumps(ErrorObject("exception")), <<>>)

\* forward_fix_and_rewrap_sse once the upstream has answered
forward_fix_and_rewrap_sse(body, status, raw) ==
    IF Parses(raw)
    THEN Response(200, "text/event-stream", "sse", NoBytes,
                  convert_to_sse_stream(Fixed(body, raw)))
    ELSE Response(status, "text/html", "bytes", raw, <<>>)

\* ------------------------------------------------------------------ upstream
\* A structured tool call as vLLM returns it.
UpstreamCall ==
    [id |-> UpstreamId(1), type |-> "function",
     function |-> [name |-> "get_weather", arguments |-> ArgString]]

UpstreamContents ==
    {NullContent, StrContent(<<"Prose">>), StrContent(<<"OPEN", "CallObj", "CLOSE">>),
     StrContent(<<"Prose", "NL", "CallStr">>)}

UpstreamToolCalls ==
    {AbsentCalls, NullCalls, ListCalls(<<>>), ListCalls(<<UpstreamCall>>)}

\* The completions the upstream answers with: one choice, with or without the
\* vLLM-only keys and usage.
UpstreamCompletions ==
    {Completion("chatcmpl-1",
                <<Choice(0, Message(c, t, x),
                         IF t.l # <<>> THEN "tool_calls" ELSE "stop", x)>>,
                IF x THEN Usage(TRUE) ELSE AbsentUsage, x) :
        c \in UpstreamContents, t \in UpstreamToolCalls, x \in BOOLEAN}

\* A tool call without its "function" key.
AbsentFunction == [absent |-> TRUE]

MalformedCall == [id |-> UpstreamId(2), type |-> "function", function |-> AbsentFunction]

HasFunction(tc) == tc.function # AbsentFunction

\* Completions whose tool_calls hold a call without "function".
MalformedCompletions ==
    {Completion("chatcmpl-1",
                <<Choice(0, Message(c, ListCalls(l), FALSE), "tool_calls", FALSE)>>,
                AbsentUsage, FALSE) :
        c \in {NullContent, StrContent(<<"Prose">>)},
        l \in {<<MalformedCall>>, <<UpstreamCall, MalformedCall>>}}

MalformedAnswers == {<<200, Bytes("compact", v)>> : v \in MalformedCompletions}

\* the calls generate() gets through before tc["function"] raises KeyError
\* (line 283)
CallsBeforeFault(tool_calls) ==
    SubSeq(tool_calls, 1,
           (CHOOSE i \in 1..Len(tool_calls) :
               /\ ~HasFunction(tool_calls[i])
               /\ \A j \in 1..(i - 1) : HasFunction(tool_calls[j])) - 1)

\* the chunks of a choice on which generate() raises: all but the finish chunk
\* of the choice cut at the call that raises
ChunksBeforeFault(rj, choice) ==
    SubSeq(ChoiceChunks(rj, [choice EXCEPT
                                !.message.tool_calls =
                                    ListCalls(CallsBeforeFault(choice.message.tool_calls.l))]),
           1,
           Len(CallsBeforeFault(choice.message.tool_calls.l))
           + (IF choice.message.content.k = "str" /\ choice.message.content.s # <<>>
              THEN 2 ELSE 1))

\* what convert_to_sse_stream yields before generate() raises, for a result
\* whose first choice raises
EmittedBeforeFault(resp_json) == ChunksBeforeFault(resp_json, resp_json.choices[1])

\* What the upstream answers to a buffered call: <<status, body>>.
UpstreamAnswers ==
    {<<200, Bytes(f, v)>> : f \in {"compact", "pydumps"}, v \in UpstreamCompletions}
    \cup {<<500, Bytes("compact", ErrorObject("upstream"))>>,
          <<200, Garbage>>, <<502, Garbage>>, <<200, JsonList>>}

\* The chunks the upstream streams: bytes the proxy does not look into.
UpstreamChunks == {"delta-content", "delta-empty-tool_calls", "done"}

FromUpstream(c) == [src |-> "upstream", data |-> c]

\* f'data: {error_data}\n\n'
ErrorEvent == [src |-> "proxy", data |-> "error"]

\* as Yielded, holding back the chunk that carries the [DONE] line
Yielded_SkipDone(chunk) == IF chunk # "done" THEN <<FromUpstream(chunk)>> ELSE <<>>

\* stream_response.generate lines 460-462: what one upstream chunk yields
Yielded(chunk) == IF chunk # "" THEN <<FromUpstream(chunk)>> ELSE <<>>

\* ------------------------------------------------------------------ state
\* client: whether the client's connection is still open.  parts: the parity
\* of the number of pieces of a buffered upstream body read so far (requests
\* reads them inside requests.post; the handler never sees the count).
\* fnEvents: the events convert_to_sse_stream yielded for fnIn.
\* VLLM_URL: the module-level upstream base URL.  conn: the requests that are
\* being handled at the same time, one thread each, with each thread's locals.
VARIABLES MAX_TOOL_CALLS, request, pc, forwarded, answer, response,
          received, delivered, client, parts, fnIn, fnOut, fnPc, fnEvents,
          VLLM_URL, conn

vars == <<MAX_TOOL_CALLS, request, pc, forwarded, answer, response,
          received, delivered, client, parts, fnIn, fnOut, fnPc, fnEvents,
          VLLM_URL, conn>>

envVars == <<client, parts>>

concVars == <<VLLM_URL, conn>>

flowVars == <<MAX_TOOL_CALLS, request, pc, forwarded, answer, response,
              received, delivered, client, parts>>

pureVars == <<fnIn, fnOut, fnPc, fnEvents>>

Request(method, path, body) == [method |-> method, path |-> path, body |-> body]

\* os.environ.get('VLLM_URL', 'http://localhost:8000') (line 46)
DefaultUrl == "http://localhost:8000"

\* no request is being handled by a thread of its own
NoConnections == <<>>

NoAnswer == <<0, NoBytes>>

\* the methods of the route (line 331) the model follows
Methods == {"GET", "POST", "DELETE", "OPTIONS"}

\* What the upstream answers to a forwarded non-chat request: <<status, body>>.
ForwardAnswers ==
    {<<200, Bytes("compact", NoCompletion)>>,
     <<200, Bytes("compact",
                  Completion("chatcmpl-1",
                             <<Choice(0, Message(StrContent(<<"OPEN", "CallObj", "CLOSE">>),
                                                 ListCalls(<<>>), TRUE), "stop", TRUE)>>,
                             Usage(TRUE), TRUE))>>,
     <<404, Garbage>>}

\* The histories with which bodies that carry pass-through keys are followed:
\* none, and a user turn with a tool-result turn after it.
ExtrasHistories ==
    {<<>>, <<[k |-> "dict", role |-> "user", tool_call_id |-> FALSE],
             [k |-> "dict", role |-> "tool", tool_call_id |-> TRUE]>>}

\* The bodies of the chat requests.
ChatBodies == {b \in Bodies : b.extras => b.messages \in ExtrasHistories}

\* The requests whose bodies are what the code expects.
Requests ==
    {Request("POST", "chat/completions", b) : b \in ChatBodies \cup {NoBody}}
    \cup {Request("POST", "responses", b) : b \in {x \in ChatBodies : x.messages = <<>>}}
    \cup {Request(m, p, NoBody) : m \in Methods, p \in {"models", "responses"}}

\* Chat requests with a body the code does not expect.
MalformedRequests == {Request("POST", "chat/completions", b) : b \in MalformedBodies}

\* One inbound request of reqs on /v1/<path>, before proxy() runs.
InitRequest(reqs) ==
    /\ MAX_TOOL_CALLS \in 0..MaxCeiling
    /\ request \in reqs
    /\ pc = "proxy"
    /\ forwarded = <<>>
    /\ answer = NoAnswer
    /\ response = NoResponse
    /\ received = <<>>
    /\ delivered = <<>>
    /\ client = "connected"
    /\ parts = 0
    /\ fnIn = NoCompletion
    /\ fnOut = NoCompletion
    /\ fnPc = "off"
    /\ fnEvents = <<>>
    /\ VLLM_URL = DefaultUrl
    /\ conn = NoConnections

Init == InitRequest(Requests)

\* an upstream request issued by function by
Upstream(by, method, path, body) ==
    [by |-> by, method |-> method, path |-> path, body |-> body]

\* proxy(path), up to the point where it returns or waits for the upstream
Proxy ==
    /\ pc = "proxy"
    /\ IF request.method = "OPTIONS" THEN
           /\ response' = Response(204, "text/html", "bytes", NoBytes, <<>>)
           /\ pc' = "done"
           /\ UNCHANGED forwarded
       ELSE IF request.path \notin ChatPaths THEN
           /\ forwarded' = Append(forwarded,
                  Upstream("forward_request", request.method, request.path, request.body))
           /\ pc' = "forward_request"
           /\ UNCHANGED response
       ELSE IF ProxyRaises(request.body) THEN
           \* the exception leaves proxy(); Flask answers for it
           /\ response' = InternalServerError
           /\ pc' = "fault"
           /\ UNCHANGED forwarded
       ELSE IF LoopGuardFires(request.body, MAX_TOOL_CALLS) THEN
           /\ response' = Response(200, "application/json", "bytes",
                                   JsonDumps(LoopAbort), <<>>)
           /\ pc' = "done"
           /\ UNCHANGED forwarded
       ELSE
           /\ forwarded' = Append(forwarded,
                  Upstream(Handler(request.body), "POST", request.path,
                           ForwardedBody(request.body)))
           /\ pc' = Handler(request.body)
           \* stream_response returns its Response before the upstream is called
           /\ response' = IF Handler(request.body) = "stream_response"
                          THEN Response(200, "text/event-stream", "stream", NoBytes, <<>>)
                          ELSE response
    /\ UNCHANGED <<MAX_TOOL_CALLS, request, answer, received, delivered>>
    /\ UNCHANGED pureVars
    /\ UNCHANGED concVars
    /\ UNCHANGED envVars

\* as UpstreamFails, with the call issued a second time before giving up
UpstreamFails_Retry ==
    /\ pc \in {"forward_request", "forward_with_body_and_fix", "forward_fix_and_rewrap_sse"}
    /\ IF Len(forwarded) < 2
       THEN /\ forwarded' = Append(forwarded, forwarded[Len(forwarded)])
            /\ UNCHANGED <<pc, response>>
       ELSE /\ response' = Response(502, "application/json", "bytes",
                                    JsonDumps(ErrorObject("exception")), <<>>)
            /\ pc' = "done"
            /\ UNCHANGED forwarded
    /\ UNCHANGED <<MAX_TOOL_CALLS, request, answer, received, delivered>>
    /\ UNCHANGED pureVars
    /\ UNCHANGED concVars
    /\ UNCHANGED envVars

\* requests raises (connection refused, timeout) in a buffered call
UpstreamFails ==
    /\ pc \in {"forward_request", "forward_with_body_and_fix", "forward_fix_and_rewrap_sse"}
    /\ response' = GatewayError
    /\ pc' = "done"
    /\ UNCHANGED <<MAX_TOOL_CALLS, request, forwarded, answer, received, delivered>>
    /\ UNCHANGED pureVars
    /\ UNCHANGED concVars
    /\ UNCHANGED envVars

\* the upstream answers a buffered chat call
UpstreamAnswers_Chat ==
    /\ pc \in {"forward_with_body_and_fix", "forward_fix_and_rewrap_sse"}
    /\ \E a \in UpstreamAnswers :
          /\ answer' = a
          /\ response' =
                IF pc = "forward_with_body_and_fix"
                THEN forward_with_body_and_fix(forwarded[Len(forwarded)].body, a[1], a[2])
                ELSE forward_fix_and_rewrap_sse(forwarded[Len(forwarded)].body, a[1], a[2])
    /\ pc' = "done"
    /\ UNCHANGED <<MAX_TOOL_CALLS, request, forwarded, received, delivered>>
    /\ UNCHANGED pureVars
    /\ UNCHANGED concVars
    /\ UNCHANGED envVars

\* the upstream answers a forwarded non-chat request: the body is passed on
\* with the upstream's status
UpstreamAnswers_Forward ==
    /\ pc = "forward_request"
    /\ \E a \in ForwardAnswers :
          /\ answer' = a
          /\ response' = Response(a[1], "text/html", "bytes", a[2], <<>>)
    /\ pc' = "done"
    /\ UNCHANGED <<MAX_TOOL_CALLS, request, forwarded, received, delivered>>
    /\ UNCHANGED pureVars
    /\ UNCHANGED concVars
    /\ UNCHANGED envVars

\* stream_response.generate: one chunk arrives and is yielded.  When the
\* client's connection is closed the server's write of the chunk fails and the
\* server closes the generator: the "with" block (line 459) closes the
\* upstream response.
StreamChunk ==
    /\ pc = "stream_response"
    /\ Len(received) < MaxChunks
    /\ \E c \in UpstreamChunks :
          /\ received' = Append(received, c)
          /\ delivered' = IF client = "connected" THEN delivered \o Yielded(c)
                          ELSE delivered
    /\ pc' = IF client = "connected" THEN pc ELSE "cancelled"
    /\ UNCHANGED <<MAX_TOOL_CALLS, request, forwarded, answer, response>>
    /\ UNCHANGED pureVars
    /\ UNCHANGED concVars
    /\ UNCHANGED envVars

\* stream_response.generate: the upstream closes the stream
StreamEnd ==
    /\ pc = "stream_response"
    /\ pc' = "done"
    /\ UNCHANGED <<MAX_TOOL_CALLS, request, forwarded, answer, response,
                   received, delivered>>
    /\ UNCHANGED pureVars
    /\ UNCHANGED concVars
    /\ UNCHANGED envVars

\* stream_response.generate: requests raises, before or between chunks
StreamFails ==
    /\ pc = "stream_response"
    /\ delivered' = IF client = "connected" THEN Append(delivered, ErrorEvent)
                    ELSE delivered
    /\ pc' = "failed"
    /\ UNCHANGED <<MAX_TOOL_CALLS, request, forwarded, answer, response, received>>
    /\ UNCHANGED pureVars
    /\ UNCHANGED concVars
    /\ UNCHANGED envVars

Next ==
    \/ Proxy
    \/ UpstreamFails
    \/ UpstreamAnswers_Chat
    \/ UpstreamAnswers_Forward
    \/ StreamChunk
    \/ StreamEnd
    \/ StreamFails

Spec == Init /\ [][Next]_vars

\* ------------------------------------------------------------------ malformed traffic
\* The same program, fed also requests and upstream answers that do not have
\* the shape the code expects.
InitMalformed ==
    InitRequest(MalformedRequests \cup {r \in Requests : r.body.messages = <<>>})

\* the upstream answers a buffered chat call with a completion that has a tool
\* call without "function"
UpstreamAnswers_Malformed ==
    /\ pc \in {"forward_with_body_and_fix", "forward_fix_and_rewrap_sse"}
    /\ \E a \in MalformedAnswers :
          /\ answer' = a
          /\ response' =
                IF pc = "forward_with_body_and_fix"
                THEN forward_with_body_and_fix(forwarded[Len(forwarded)].body, a[1], a[2])
                \* the Response is returned (lines 397-402); generate() raises
                \* while the server iterates it
                ELSE Response(200, "text/event-stream", "sse", NoBytes,
                              EmittedBeforeFault(Fixed(forwarded[Len(forwarded)].body, a[2])))
    /\ pc' = IF pc = "forward_with_body_and_fix" THEN "done" ELSE "dropped"
    /\ UNCHANGED <<MAX_TOOL_CALLS, request, forwarded, received, delivered>>
    /\ UNCHANGED pureVars
    /\ UNCHANGED concVars
    /\ UNCHANGED envVars

NextMalformed ==
    \/ Next
    \/ UpstreamAnswers_Malformed

SpecMalformed == InitMalformed /\ [][NextMalformed]_vars

\* ------------------------------------------------------------------ disconnecting clients
\* The same program with clients that may close their connection while the
\* request is being served.
InitLive == InitRequest({r \in Requests : r.body.messages = <<>>})

\* the client closes its connection while the handler waits for the upstream
ClientDisconnects ==
    /\ pc \in {"forward_request", "forward_with_body_and_fix",
               "forward_fix_and_rewrap_sse", "stream_response"}
    /\ client = "connected"
    /\ client' = "gone"
    /\ UNCHANGED <<MAX_TOOL_CALLS, request, pc, forwarded, answer, response,
                   received, delivered, parts>>
    /\ UNCHANGED pureVars
    /\ UNCHANGED concVars

\* requests.post (lines 383 and 430) reads one more piece of the upstream's
\* body: the call goes on blocking and its read timeout starts afresh
UpstreamSendsPart ==
    /\ pc \in {"forward_with_body_and_fix", "forward_fix_and_rewrap_sse"}
    /\ parts' = 1 - parts
    /\ UNCHANGED <<MAX_TOOL_CALLS, request, pc, forwarded, answer, response,
                   received, delivered, client>>
    /\ UNCHANGED pureVars
    /\ UNCHANGED concVars

NextLive ==
    \/ Next
    \/ ClientDisconnects
    \/ UpstreamSendsPart

\* timeout=300 (lines 383, 417, 430, 459): every read of the upstream gets
\* bytes, sees the end of the body, or raises within the timeout.
SpecLive ==
    /\ InitLive
    /\ [][NextLive]_vars
    /\ WF_vars(Proxy)
    /\ WF_vars(StreamChunk \/ StreamEnd \/ StreamFails)
    /\ WF_vars(UpstreamAnswers_Chat \/ UpstreamFails \/ UpstreamSendsPart)
    /\ WF_vars(pc = "forward_request" /\ (UpstreamAnswers_Forward \/ UpstreamFails))

\* ------------------------------------------------------------------ concurrent requests
\* app.run(threaded=True) (line 513): every inbound request is handled by a
\* thread of its own.  The locals of proxy() belong to the thread, request is
\* Flask's context-local, and VLLM_URL and MAX_TOOL_CALLS are the globals of
\* the module, which every thread reads.
NumConnections == 2

Connections == 1..NumConnections

\* --vllm-url (lines 505-510) replaces the default before app.run
StartupUrls == {DefaultUrl, "http://vllm:8000"}

\* A tool-result turn of the history.
ToolTurn == [k |-> "dict", role |-> "tool", tool_call_id |-> TRUE]

\* The chat bodies of the requests handled at the same time.
ConcBodies ==
    {b \in Bodies : /\ b.messages \in {<<>>, <<ToolTurn>>}
                    /\ b.tools # "empty"
                    /\ b.stream # "absent"
                    /\ ~b.extras}

\* What the upstream answers to the buffered calls of these requests.
ConcAnswers ==
    {<<200, Bytes("compact",
                  Completion("chatcmpl-1",
                             <<Choice(0, Message(StrContent(c), AbsentCalls, FALSE),
                                      "stop", FALSE)>>, AbsentUsage, FALSE))>> :
        c \in {<<"Prose">>, <<"OPEN", "CallObj", "CLOSE">>}}

\* A thread about to run proxy() for request req, and its locals.
Thread(req) ==
    [request |-> req, pc |-> "proxy", url |-> "", body |-> NoBody,
     was_streaming |-> FALSE, is_streaming |-> FALSE,
     forwarded |-> <<>>, answer |-> NoAnswer, response |-> NoResponse]

\* an upstream request issued by function by to url
UpstreamAt(url, by, body) == [url |-> url, by |-> by, body |-> body]

InitConc ==
    /\ MAX_TOOL_CALLS \in 0..MaxCeiling
    /\ VLLM_URL \in StartupUrls
    /\ conn \in [Connections ->
                    {Thread(Request("POST", "chat/completions", b)) : b \in ConcBodies}]
    /\ request = Request("POST", "chat/completions", NoBody)
    /\ pc = "off"
    /\ forwarded = <<>>
    /\ answer = NoAnswer
    /\ response = NoResponse
    /\ received = <<>>
    /\ delivered = <<>>
    /\ client = "connected"
    /\ parts = 0
    /\ fnIn = NoCompletion
    /\ fnOut = NoCompletion
    /\ fnPc = "off"
    /\ fnEvents = <<>>

\* thread c takes a step that leaves it as t; the globals are only read
ThreadStep(c, t) ==
    /\ conn' = [conn EXCEPT ![c] = t]
    /\ UNCHANGED <<MAX_TOOL_CALLS, VLLM_URL>>
    /\ UNCHANGED <<request, pc, forwarded, answer, response, received, delivered>>
    /\ UNCHANGED envVars
    /\ UNCHANGED pureVars

\* as tool_count, with the count kept in a module-level counter that every
\* request adds to
tool_count_Accumulated(c) ==
    Cardinality({di \in Connections \X (1..MaxMsgs) :
                    /\ Len(conn[di[1]].body.messages) >= di[2]
                    /\ \/ conn[di[1]].body.messages[di[2]].role = "tool"
                       \/ conn[di[1]].body.messages[di[2]].tool_call_id})

\* check_tool_loop line 76: the count, from the thread's own body
tool_count(c) == count_tool_results(conn[c].body.messages)

\* proxy() lines 333-344: the URL is built and the body parsed
ConnParse ==
    \E c \in Connections :
        /\ conn[c].pc = "proxy"
        /\ ThreadStep(c, [conn[c] EXCEPT !.url = VLLM_URL,
                                         !.body = conn[c].request.body,
                                         !.pc = "guard"])

\* proxy() lines 347-350: the loop guard
ConnGuard ==
    \E c \in Connections :
        /\ conn[c].pc = "guard"
        /\ IF has_tools(conn[c].body) /\ tool_count(c) >= MAX_TOOL_CALLS
           THEN ThreadStep(c, [conn[c] EXCEPT
                                  !.response = Response(200, "application/json", "bytes",
                                                        JsonDumps(LoopAbort), <<>>),
                                  !.pc = "done"])
           ELSE ThreadStep(c, [conn[c] EXCEPT !.pc = "force"])

\* proxy() lines 353-359: was_streaming, and streaming forced off
ConnForce ==
    \E c \in Connections :
        /\ conn[c].pc = "force"
        /\ ThreadStep(c, [conn[c] EXCEPT
                             !.was_streaming = (conn[c].body.stream = "true"),
                             !.body = IF has_tools(conn[c].body)
                                         /\ conn[c].body.stream = "true"
                                      THEN [conn[c].body EXCEPT !.stream = "false",
                                                                !.stream_options = FALSE]
                                      ELSE conn[c].body,
                             !.pc = "strip"])

\* proxy() lines 361-366: is_streaming, and stream_options stripped
ConnStrip ==
    \E c \in Connections :
        /\ conn[c].pc = "strip"
        /\ ThreadStep(c, [conn[c] EXCEPT
                             !.is_streaming = (conn[c].body.stream = "true"),
                             !.body = IF conn[c].body.stream # "true"
                                         /\ conn[c].body.stream_options
                                      THEN [conn[c].body EXCEPT !.stream_options = FALSE]
                                      ELSE conn[c].body,
                             !.pc = "dispatch"])

\* the handler lines 370-377 choose from the thread's locals
DispatchTo(t) ==
    IF t.is_streaming THEN "stream_response"
    ELSE IF t.was_streaming /\ has_tools(t.body) THEN "forward_fix_and_rewrap_sse"
    ELSE "forward_with_body_and_fix"

\* proxy() lines 370-377 and the requests.post of the handler chosen
ConnDispatch ==
    \E c \in Connections :
        /\ conn[c].pc = "dispatch"
        /\ ThreadStep(c, [conn[c] EXCEPT
                             !.forwarded = Append(conn[c].forwarded,
                                                  UpstreamAt(conn[c].url, DispatchTo(conn[c]),
                                                             conn[c].body)),
                             !.response = IF DispatchTo(conn[c]) = "stream_response"
                                          THEN Response(200, "text/event-stream", "stream",
                                                        NoBytes, <<>>)
                                          ELSE conn[c].response,
                             !.pc = DispatchTo(conn[c])])

\* the upstream answers the buffered call of a thread
ConnAnswer ==
    \E c \in Connections, a \in ConcAnswers :
        /\ conn[c].pc \in {"forward_with_body_and_fix", "forward_fix_and_rewrap_sse"}
        /\ ThreadStep(c, [conn[c] EXCEPT
                             !.answer = a,
                             !.response =
                                 IF conn[c].pc = "forward_with_body_and_fix"
                                 THEN forward_with_body_and_fix(conn[c].body, a[1], a[2])
                                 ELSE forward_fix_and_rewrap_sse(conn[c].body, a[1], a[2]),
                             !.pc = "done"])

\* the upstream closes the stream of a thread
ConnStreamEnd ==
    \E c \in Connections :
        /\ conn[c].pc = "stream_response"
        /\ ThreadStep(c, [conn[c] EXCEPT !.pc = "done"])

NextConc ==
    \/ ConnParse
    \/ ConnGuard
    \/ ConnForce
    \/ ConnStrip
    \/ ConnDispatch
    \/ ConnAnswer
    \/ ConnStreamEnd

SpecConc == InitConc /\ [][NextConc]_vars

\* ------------------------------------------------------------------ functions
\* the finish_reason the upstream gives a text: "length" for a text cut in the
\* middle of an object, "stop" for any other
UpstreamFinish(s) ==
    IF s # <<>> /\ s[Len(s)] = "JHead" THEN "length" ELSE "stop"

\* The extractor applied to an upstream completion with one text-only choice.
InitPure ==
    /\ \E s \in SeqsUpTo(Tokens, MaxContentLen) :
          fnIn = Completion("chatcmpl-1",
                            <<Choice(0, Message(StrContent(s), AbsentCalls, FALSE),
                                     UpstreamFinish(s), FALSE)>>, AbsentUsage, FALSE)
    /\ fnOut = NoCompletion
    /\ fnPc = "input"
    /\ fnEvents = <<>>
    /\ VLLM_URL = DefaultUrl
    /\ conn = NoConnections
    /\ client = "connected"
    /\ parts = 0
    /\ MAX_TOOL_CALLS = 0
    /\ request = Request("POST", "chat/completions", NoBody)
    /\ pc = "off"
    /\ forwarded = <<>>
    /\ answer = NoAnswer
    /\ response = NoResponse
    /\ received = <<>>
    /\ delivered = <<>>

Extract ==
    /\ fnPc = "input"
    /\ fnOut' = extract_tools_from_content(fnIn)
    /\ fnPc' = "extracted"
    /\ UNCHANGED <<fnIn, fnEvents>>
    /\ UNCHANGED flowVars
    /\ UNCHANGED concVars

NextPure == Extract

SpecPure == InitPure /\ [][NextPure]_vars

\* ------------------------------------------------------------------ results as inputs
\* A second structured tool call.
SecondCall ==
    [id |-> UpstreamId(2), type |-> "function",
     function |-> [name |-> "lookup", arguments |-> [t |-> "str", v |-> "{\"q\": 1}"]]]

ResultContents == {NullContent, StrContent(<<>>), StrContent(<<"Prose">>)}

ResultToolCalls ==
    {AbsentCalls, NullCalls, ListCalls(<<>>), ListCalls(<<UpstreamCall>>),
     ListCalls(<<UpstreamCall, SecondCall>>)}

\* A completion result of k choices, numbered from 0 as the upstream numbers
\* them: f gives each choice its content and tool_calls, u is the usage, x
\* says whether the vLLM-only keys are present.
Result(k, f, u, x) ==
    Completion("chatcmpl-1",
               [i \in 1..k |->
                   Choice(i - 1, Message(f[i][1], f[i][2], x),
                          IF f[i][2].l # <<>> THEN "tool_calls" ELSE "stop", x)],
               u, x)

\* The normalizer and the emitter are handed a completion result of up to
\* MaxChoices choices.
InitResult ==
    /\ \E x \in BOOLEAN, k \in 0..MaxChoices :
          \E f \in [1..k -> ResultContents \X ResultToolCalls],
             u \in {AbsentUsage, Usage(FALSE), Usage(x)} :
              fnIn = Result(k, f, u, x)
    /\ fnOut = NoCompletion
    /\ fnPc = "input"
    /\ fnEvents = <<>>
    /\ VLLM_URL = DefaultUrl
    /\ conn = NoConnections
    /\ client = "connected"
    /\ parts = 0
    /\ MAX_TOOL_CALLS = 0
    /\ request = Request("POST", "chat/completions", NoBody)
    /\ pc = "off"
    /\ forwarded = <<>>
    /\ answer = NoAnswer
    /\ response = NoResponse
    /\ received = <<>>
    /\ delivered = <<>>

\* clean_response_for_openclaw(resp_json)
Clean ==
    /\ fnPc = "input"
    /\ fnOut' = clean_response_for_openclaw(fnIn)
    /\ fnPc' = "cleaned"
    /\ UNCHANGED <<fnIn, fnEvents>>
    /\ UNCHANGED flowVars
    /\ UNCHANGED concVars

\* clean_response_for_openclaw on the object it has already cleaned
CleanAgain ==
    /\ fnPc = "cleaned"
    /\ fnOut' = clean_response_for_openclaw(fnOut)
    /\ fnPc' = "cleaned-twice"
    /\ UNCHANGED <<fnIn, fnEvents>>
    /\ UNCHANGED flowVars
    /\ UNCHANGED concVars

\* convert_to_sse_stream(resp_json), run to its end
Emit ==
    /\ fnPc = "input"
    /\ fnEvents' = convert_to_sse_stream(fnIn)
    /\ fnPc' = "emitted"
    /\ UNCHANGED <<fnIn, fnOut>>
    /\ UNCHANGED flowVars
    /\ UNCHANGED concVars

NextResult ==
    \/ Clean
    \/ CleanAgain
    \/ Emit

SpecResult == InitResult /\ [][NextResult]_vars

\* ------------------------------------------------------------------ the extractor applied twice
\* The contents of the choices the extractor is handed: absent, null, empty,
\* blank, prose, and text holding tool calls in each of the three forms.
TwiceContents ==
    {AbsentContent, NullContent, StrContent(<<>>), StrContent(<<"NL">>),
     StrContent(<<"Prose">>), StrContent(<<"OPEN", "CallObj", "CLOSE">>),
     StrContent(<<"CallStr">>), StrContent(<<"Prose", "NL", "CallObj">>),
     StrContent(<<"OPEN", "CallObj", "CLOSE", "NL", "CallStr">>),
     StrContent(<<"JHead", "NL", "JTail">>)}

\* The extractor is handed a completion of up to MaxChoices choices, with or
\* without structured tool calls.
InitTwice ==
    /\ \E k \in 0..MaxChoices :
          \E f \in [1..k -> TwiceContents \X UpstreamToolCalls] :
              fnIn = Result(k, f, AbsentUsage, FALSE)
    /\ fnOut = NoCompletion
    /\ fnPc = "input"
    /\ fnEvents = <<>>
    /\ VLLM_URL = DefaultUrl
    /\ conn = NoConnections
    /\ client = "connected"
    /\ parts = 0
    /\ MAX_TOOL_CALLS = 0
    /\ request = Request("POST", "chat/completions", NoBody)
    /\ pc = "off"
    /\ forwarded = <<>>
    /\ answer = NoAnswer
    /\ response = NoResponse
    /\ received = <<>>
    /\ delivered = <<>>

\* extract_tools_from_content on the object it has already been applied to
ExtractAgain ==
    /\ fnPc = "extracted"
    /\ fnOut' = extract_tools_from_content(fnOut)
    /\ fnPc' = "extracted-twice"
    /\ UNCHANGED <<fnIn, fnEvents>>
    /\ UNCHANGED flowVars
    /\ UNCHANGED concVars

NextTwice ==
    \/ Extract
    \/ ExtractAgain

SpecTwice == InitTwice /\ [][NextTwice]_vars

\* ------------------------------------------------------------------ properties
\* the request is a chat-completion request whose body is a JSON object
ChatRequest ==
    /\ request.method # "OPTIONS"
    /\ request.path \in ChatPaths
    /\ request.body.kind = "dict"

\* proxy() has returned and, where it streams, the stream has ended
Answered == pc \in {"done", "failed"}

\* the tool-result turns of the history, each message counted once
ToolResultTurns ==
    Len(SelectSeq(request.body.messages,
                  LAMBDA m : m.role = "tool" \/ m.tool_call_id))

\* the client got the abort completion and the upstream got nothing
AbortReturned ==
    /\ pc = "done"
    /\ forwarded = <<>>
    /\ response.form = "bytes"
    /\ response.raw.val.id = "chatcmpl-loop-abort"

\* the request went to the upstream
Proceeded == Len(forwarded) = 1

\* C1 as stated: with ceiling N, a chat request whose history holds N-1
\* tool-result turns proceeds to the upstream and one whose history holds N or
\* more gets the abort completion, whether or not the request declares tools.
C1_LoopGuardWithOrWithoutTools ==
    (ChatRequest /\ pc # "proxy") =>
        /\ (ToolResultTurns = MAX_TOOL_CALLS - 1 => Proceeded)
        /\ (ToolResultTurns >= MAX_TOOL_CALLS => AbortReturned)

\* C1 amended: for a chat request that declares a non-empty tools list, N-1
\* tool-result turns proceed and N or more get the abort completion; a request
\* that declares no tools always proceeds, whatever its history.
C1_LoopGuardBoundary ==
    (ChatRequest /\ pc # "proxy") =>
        IF request.body.tools = "some"
        THEN /\ (ToolResultTurns = MAX_TOOL_CALLS - 1 => Proceeded)
             /\ (ToolResultTurns >= MAX_TOOL_CALLS => AbortReturned)
             /\ (ToolResultTurns < MAX_TOOL_CALLS => Proceeded)
        ELSE Proceeded

C1_Witness ==
    /\ ChatRequest
    /\ request.body.tools = "some"
    /\ MAX_TOOL_CALLS >= 1
    /\ ToolResultTurns = MAX_TOOL_CALLS
    /\ AbortReturned

\* C2: when the loop guard fires the client gets HTTP 200 with a completion of
\* one choice whose message has role assistant, explanatory content, no
\* tool_calls key and finish_reason "stop", and nothing is sent upstream.
C2_AbortIsOrdinaryCompletion ==
    (/\ ChatRequest
     /\ pc # "proxy"
     /\ request.body.tools = "some"
     /\ ToolResultTurns >= MAX_TOOL_CALLS) =>
        /\ pc = "done"
        /\ forwarded = <<>>
        /\ response.status = 200
        /\ response.form = "bytes"
        /\ Parses(response.raw)
        /\ response.raw.val.object = "chat.completion"
        /\ Len(response.raw.val.choices) = 1
        /\ response.raw.val.choices[1].message.role = "assistant"
        /\ response.raw.val.choices[1].message.content.k = "str"
        /\ response.raw.val.choices[1].message.content.s # <<>>
        /\ response.raw.val.choices[1].message.tool_calls.k = "absent"
        /\ response.raw.val.choices[1].finish_reason = "stop"

C2_Witness ==
    /\ ChatRequest
    /\ request.body.tools = "some"
    /\ request.body.stream = "false"
    /\ ToolResultTurns > MAX_TOOL_CALLS
    /\ response.status = 200
    /\ forwarded = <<>>

\* the response is an SSE stream: text/event-stream framing, and the events the
\* proxy writes itself end in the [DONE] sentinel
IsSSE(r) ==
    /\ r.mimetype = "text/event-stream"
    /\ r.form \in {"sse", "stream"}
    /\ r.form = "sse" =>
          /\ r.events # <<>>
          /\ r.events[Len(r.events)] = DoneEvent

\* the response is a single JSON body
IsSingleJSON(r) ==
    /\ r.mimetype = "application/json"
    /\ r.form = "bytes"
    /\ Parses(r.raw)

\* C3 as stated: a chat request with stream=true is always answered with an SSE
\* stream and one with stream false or absent with a single JSON body, on every
\* path, the loop-guard abort and the unparseable-body fallback included.
C3_FormMatchesRequest ==
    (ChatRequest /\ Answered) =>
        IF request.body.stream = "true" THEN IsSSE(response)
        ELSE IsSingleJSON(response)

\* what the pipeline makes of a parsed upstream body when tools are declared
Pipeline(raw) == clean_response_for_openclaw(extract_tools_from_content(raw.val))

\* C4: exactly one strategy handles each chat request that passes the loop
\* guard.  With tools and stream requested the upstream is called once with
\* stream false and the client gets the SSE events of the extracted, normalized
\* result; with tools and no stream the same result comes back as one JSON body.
C4_ModeSelection ==
    (ChatRequest /\ Proceeded) =>
        /\ forwarded[1].by =
              IF request.body.tools = "some"
              THEN IF request.body.stream = "true"
                   THEN "forward_fix_and_rewrap_sse"
                   ELSE "forward_with_body_and_fix"
              ELSE IF request.body.stream = "true"
                   THEN "stream_response"
                   ELSE "forward_with_body_and_fix"
        /\ (request.body.tools = "some" /\ request.body.stream = "true") =>
              /\ forwarded[1].body.stream = "false"
              /\ (pc = "done" /\ Parses(answer[2])) =>
                    /\ IsSSE(response)
                    /\ response.form = "sse"
                    /\ response.events = convert_to_sse_stream(Pipeline(answer[2]))
        /\ (request.body.tools = "some" /\ request.body.stream # "true") =>
              /\ forwarded[1].body.stream = request.body.stream
              /\ (pc = "done" /\ Parses(answer[2])) =>
                    /\ IsSingleJSON(response)
                    /\ response.raw.val = Pipeline(answer[2])

C4_Witness ==
    /\ ChatRequest
    /\ request.body.tools = "some"
    /\ request.body.stream = "true"
    /\ pc = "done"
    /\ Parses(answer[2])
    /\ answer[2].val.choices[1].message.tool_calls.k = "absent"
    /\ response.form = "sse"
    /\ \E i \in 1..Len(response.events) :
          response.events[i].delta.tool_calls.k = "list"

\* C5: the body forwarded for a chat request that declares tools never holds
\* stream_options and never has stream=true; no forwarded chat body holds
\* stream_options together with stream false or absent.
C5_NoStreamOptionsWithoutStream ==
    \A i \in 1..Len(forwarded) :
        (forwarded[i].by # "forward_request" /\ forwarded[i].body.kind = "dict") =>
            /\ request.body.tools = "some" =>
                  /\ ~forwarded[i].body.stream_options
                  /\ forwarded[i].body.stream # "true"
            /\ forwarded[i].body.stream # "true" => ~forwarded[i].body.stream_options

C5_Witness ==
    /\ ChatRequest
    /\ request.body.tools = "some"
    /\ request.body.stream = "false"
    /\ request.body.stream_options
    /\ Proceeded
    /\ ~forwarded[1].body.stream_options

\* the upstream answered a buffered chat call of a request without tools
BufferedPassthrough ==
    /\ ChatRequest
    /\ request.body.tools = "absent"
    /\ request.body.stream # "true"
    /\ pc = "done"
    /\ answer # NoAnswer

\* C6 as stated: for a chat request with no tools field and stream not
\* requested the body returned is byte-identical to the upstream's body.
C6_ByteIdenticalPassthrough ==
    BufferedPassthrough => response.raw = answer[2]

\* C6 amended: for such a request a body that parses is returned normalized and
\* re-serialized by json.dumps, with no tool-call extraction: the vLLM-only
\* keys are gone, an empty or null tool_calls is gone, all else (content,
\* finish_reason, non-empty tool_calls) is as the upstream sent it; only a
\* body that does not parse is returned byte-identical.  The status is the
\* upstream's.
C6_NormalizedPassthrough ==
    BufferedPassthrough =>
        /\ response.status = answer[1]
        /\ ~Parses(answer[2]) => response.raw = answer[2]
        /\ Parses(answer[2]) =>
              /\ response.raw.fmt = "pydumps"
              /\ response.raw.val.object = answer[2].val.object
              /\ response.raw.val.id = answer[2].val.id
              /\ ~response.raw.val.extras
              /\ response.raw.val.usage.k = answer[2].val.usage.k
              /\ ~response.raw.val.usage.details
              /\ Len(response.raw.val.choices) = Len(answer[2].val.choices)
              /\ \A i \in 1..Len(answer[2].val.choices) :
                    /\ ~response.raw.val.choices[i].extras
                    /\ ~response.raw.val.choices[i].message.extras
                    /\ response.raw.val.choices[i].index = answer[2].val.choices[i].index
                    /\ response.raw.val.choices[i].finish_reason =
                          answer[2].val.choices[i].finish_reason
                    /\ response.raw.val.choices[i].message.content =
                          answer[2].val.choices[i].message.content
                    /\ response.raw.val.choices[i].message.tool_calls =
                          IF answer[2].val.choices[i].message.tool_calls.l # <<>>
                          THEN answer[2].val.choices[i].message.tool_calls
                          ELSE AbsentCalls

C6_Witness ==
    /\ BufferedPassthrough
    /\ answer[2].fmt = "compact"
    /\ answer[2].val.extras
    /\ answer[2].val.choices[1].message.content = StrContent(<<"OPEN", "CallObj", "CLOSE">>)
    /\ response.raw.val.choices[1].message.content = StrContent(<<"OPEN", "CallObj", "CLOSE">>)
    /\ response.raw # answer[2]

\* the request is served by the streaming passthrough
StreamingPassthrough ==
    /\ ChatRequest
    /\ request.body.tools = "absent"
    /\ request.body.stream = "true"
    /\ pc # "proxy"

\* the chunks received from the upstream so far, as the client should see them
ReceivedSoFar == [i \in 1..Len(received) |-> FromUpstream(received[i])]

\* C7 as stated: in the streaming passthrough the chunks delivered are at every
\* moment exactly the chunks received from the upstream, in order, nothing
\* dropped, added, coalesced or rewritten, none held back.
C7_StreamIsExactlyUpstream ==
    StreamingPassthrough => delivered = ReceivedSoFar

\* C7 amended: the chunks delivered are at every moment exactly the chunks
\* received from the upstream, in order and none held back, followed by one
\* "data: {error}" event written by the proxy if and only if the upstream
\* call failed.
C7_StreamIsUpstreamThenError ==
    StreamingPassthrough =>
        delivered = IF pc = "failed" THEN Append(ReceivedSoFar, ErrorEvent)
                    ELSE ReceivedSoFar

C7_Witness ==
    /\ StreamingPassthrough
    /\ pc = "done"
    /\ received = <<"delta-content", "done">>
    /\ delivered = <<FromUpstream("delta-content"), FromUpstream("done")>>

\* the content handed to the extractor and the calls it returned
ExtractInput == fnIn.choices[1].message.content.s

ExtractOutput == CallsOrEmpty(fnOut.choices[1].message)

SingleCalls == {"CallObj", "CallStr", "CallList"}

CallName(t) ==
    IF t = "CallObj" THEN "get_weather" ELSE IF t = "CallStr" THEN "lookup" ELSE "sum"

C9_ArgumentsAlwaysString ==
    fnPc = "extracted" =>
        \A i \in 1..Len(ExtractOutput) : ExtractOutput[i].function.arguments.t = "str"

\* a chunk of the streaming passthrough whose delta holds "tool_calls": []
EmptyCallsChunk == FromUpstream("delta-empty-tool_calls")

\* no message of a JSON body the proxy built holds an empty or null tool_calls
NoEmptyCallsInBody ==
    (response.form = "bytes" /\ response.raw.fmt = "pydumps") =>
        \A i \in 1..Len(response.raw.val.choices) :
            response.raw.val.choices[i].message.tool_calls.k = "list" =>
                response.raw.val.choices[i].message.tool_calls.l # <<>>

NoNullCallsInBody ==
    (response.form = "bytes" /\ response.raw.fmt = "pydumps") =>
        \A i \in 1..Len(response.raw.val.choices) :
            response.raw.val.choices[i].message.tool_calls.k # "null"

\* no event the proxy wrote holds an empty or null tool_calls delta
NoEmptyCallsInEvents ==
    \A i \in 1..Len(response.events) :
        /\ response.events[i].delta.tool_calls.k # "null"
        /\ response.events[i].delta.tool_calls.k = "list" =>
              response.events[i].delta.tool_calls.l # <<>>

\* C10 as stated: in every response to a chat request a message with zero tool
\* calls has no tool_calls key, and no SSE chunk carries an empty tool_calls.
C10_NoEmptyCallsAnywhere ==
    (request.path \in ChatPaths /\ request.method # "OPTIONS") =>
        /\ NoEmptyCallsInBody
        /\ NoNullCallsInBody
        /\ NoEmptyCallsInEvents
        /\ \A i \in 1..Len(delivered) : delivered[i] # EmptyCallsChunk

\* C10 amended: in every response the proxy builds itself (the loop-guard
\* abort, the JSON body and the SSE re-wrap of a parsed upstream completion) a
\* message with zero tool calls has no tool_calls key and no event carries an
\* empty tool_calls; the streaming passthrough and an unparseable body go out
\* as the upstream sent them.
C10_NoEmptyCallsInBuiltResponses ==
    (request.path \in ChatPaths /\ request.method # "OPTIONS") =>
        /\ NoEmptyCallsInBody
        /\ NoNullCallsInBody
        /\ NoEmptyCallsInEvents

C10_Witness ==
    /\ ChatRequest
    /\ pc = "done"
    /\ Parses(answer[2])
    /\ answer[2].val.choices[1].message.tool_calls = ListCalls(<<>>)
    /\ response.form = "bytes"
    /\ response.raw.val.choices[1].message.tool_calls = AbsentCalls

\* C11: the Response Normalizer is idempotent: cleaning a result that has been
\* cleaned changes nothing.
C11_NormalizerIdempotent ==
    [][(fnPc = "cleaned" /\ fnPc' = "cleaned-twice") => fnOut' = fnOut]_vars

C11_Witness ==
    /\ fnPc = "cleaned-twice"
    /\ fnIn.extras
    /\ fnIn.usage.details
    /\ Len(fnIn.choices) = 2
    /\ fnIn.choices[1].message.tool_calls = ListCalls(<<>>)
    /\ fnIn.choices[2].message.tool_calls = ListCalls(<<UpstreamCall>>)
    /\ fnOut # fnIn
    /\ fnOut.choices[1].message.tool_calls = AbsentCalls
    /\ fnOut.choices[2].message.tool_calls = ListCalls(<<UpstreamCall>>)

\* A client's reassembly of an SSE chunk sequence, field by field: chunks are
\* grouped by their choice index; content deltas are concatenated (no text at
\* all is absent content); the tool-call entries are collected in order; the
\* finish_reason is the last one announced; usage comes from the usage chunk.
ChunksOfChoice(events, i) ==
    SelectSeq(events, LAMBDA e : ~e.done /\ e.choices = "one" /\ e.index = i)

ReassembledContent(cks) ==
    LET pieces == SelectSeq(cks, LAMBDA e : e.delta.content.k = "str")
        text == Flatten([k \in 1..Len(pieces) |-> pieces[k].delta.content.s])
    IN IF text = <<>> THEN NullContent ELSE StrContent(text)

ReassembledCalls(cks) ==
    LET pieces == SelectSeq(cks, LAMBDA e : e.delta.tool_calls.k = "list")
        entries == Flatten([k \in 1..Len(pieces) |-> pieces[k].delta.tool_calls.l])
    IN IF entries = <<>> THEN AbsentCalls
       ELSE ListCalls([k \in 1..Len(entries) |->
                          [id |-> entries[k].id, type |-> entries[k].type,
                           function |-> entries[k].function]])

ReassembledFinish(cks) ==
    LET fin == SelectSeq(cks, LAMBDA e : e.finish_reason # "null")
    IN IF fin = <<>> THEN "null" ELSE fin[Len(fin)].finish_reason

ReassembledChoice(cks, i) ==
    Choice(i, Message(ReassembledContent(cks), ReassembledCalls(cks), FALSE),
           ReassembledFinish(cks), FALSE)

ChoiceIndices(events) ==
    {events[k].index : k \in {j \in 1..Len(events) :
                                 ~events[j].done /\ events[j].choices = "one"}}

KthIndex(S, k) == CHOOSE i \in S : Cardinality({j \in S : j < i}) = k - 1

ReassembledUsage(events) ==
    LET us == SelectSeq(events, LAMBDA e : ~e.done /\ e.choices = "none")
    IN IF us = <<>> THEN AbsentUsage ELSE us[1].usage

Reassemble(events) ==
    Completion(events[1].id,
               [k \in 1..Cardinality(ChoiceIndices(events)) |->
                   ReassembledChoice(
                       ChunksOfChoice(events, KthIndex(ChoiceIndices(events), k)),
                       KthIndex(ChoiceIndices(events), k))],
               ReassembledUsage(events), FALSE)

\* a normalized result with at least one choice whose content, where present,
\* is not the empty string
RoundTripInput ==
    /\ fnIn = clean_response_for_openclaw(fnIn)
    /\ Len(fnIn.choices) >= 1
    /\ \A i \in 1..Len(fnIn.choices) : fnIn.choices[i].message.content # StrContent(<<>>)

\* C12 as stated: for every completion result, with one or several choices,
\* reassembling the emitter's chunk sequence field by field reproduces the
\* result exactly: content, tool calls, each choice's finish_reason and index,
\* and usage.
C12_RoundTrip ==
    (fnPc = "emitted" /\ RoundTripInput) => Reassemble(fnEvents) = fnIn

\* the same for results of one choice (what the emitter does get right)
RoundTripOneChoice ==
    (fnPc = "emitted" /\ RoundTripInput /\ Len(fnIn.choices) = 1) =>
        Reassemble(fnEvents) = fnIn

\* what an event is, told from what it carries
EventKind(e) ==
    IF e.done THEN "done"
    ELSE IF e.choices = "none" THEN "usage"
    ELSE IF e.delta.role = "assistant" THEN "role"
    ELSE IF e.delta.tool_calls.k = "list" THEN "call"
    ELSE IF e.delta.content.k = "str" THEN "content"
    ELSE "terminal"

\* the choice has content to send, and how many events it takes
HasContent(choice) ==
    choice.message.content.k = "str" /\ choice.message.content.s # <<>>

ContentLen(choice) == IF HasContent(choice) THEN 1 ELSE 0

SegLen(choice) == 2 + ContentLen(choice) + Len(CallsOrEmpty(choice.message))

\* the position of the first event of the k-th choice
SegStart(choices, k) ==
    LET start[j \in 1..(Len(choices) + 1)] ==
            IF j = 1 THEN 1 ELSE start[j - 1] + SegLen(choices[j - 1])
    IN start[k]

\* the events from position b on are those of the choice, in order
SegmentOrdered(ev, choice, b) ==
    /\ EventKind(ev[b]) = "role"
    /\ ev[b].finish_reason = "null"
    /\ HasContent(choice) =>
          /\ EventKind(ev[b + 1]) = "content"
          /\ ev[b + 1].delta.content = choice.message.content
          /\ ev[b + 1].finish_reason = "null"
    /\ \A i \in 1..Len(CallsOrEmpty(choice.message)) :
          /\ EventKind(ev[b + ContentLen(choice) + i]) = "call"
          /\ ev[b + ContentLen(choice) + i].finish_reason = "null"
          /\ Len(ev[b + ContentLen(choice) + i].delta.tool_calls.l) = 1
          /\ ev[b + ContentLen(choice) + i].delta.tool_calls.l[1].index = i - 1
          /\ ev[b + ContentLen(choice) + i].delta.tool_calls.l[1].id =
                choice.message.tool_calls.l[i].id
          /\ ev[b + ContentLen(choice) + i].delta.tool_calls.l[1].function =
                choice.message.tool_calls.l[i].function
    /\ EventKind(ev[b + SegLen(choice) - 1]) = "terminal"
    /\ ev[b + SegLen(choice) - 1].delta = AbsentDelta
    /\ ev[b + SegLen(choice) - 1].finish_reason = choice.finish_reason

UsageLen(rj) == IF rj.usage.k = "dict" THEN 1 ELSE 0

\* C13: the emitter's output is, per choice and in this order, the role chunk,
\* the content chunk only if content is present, the tool-call chunks in the
\* order of tool_calls with indices 0..n-1, and one terminal chunk with an
\* empty delta and the choice's finish_reason; after all choices a usage-only
\* chunk only if usage is present; and [DONE] exactly once, last, also when
\* there are no choices.
C13_EmitterOrder ==
    fnPc = "emitted" =>
        /\ Len(fnEvents) =
              SegStart(fnIn.choices, Len(fnIn.choices) + 1) + UsageLen(fnIn)
        /\ \A k \in 1..Len(fnIn.choices) :
              SegmentOrdered(fnEvents, fnIn.choices[k], SegStart(fnIn.choices, k))
        /\ UsageLen(fnIn) = 1 =>
              /\ EventKind(fnEvents[Len(fnEvents) - 1]) = "usage"
              /\ fnEvents[Len(fnEvents) - 1].usage = fnIn.usage
        /\ fnEvents[Len(fnEvents)] = DoneEvent
        /\ \A i \in 1..(Len(fnEvents) - 1) : ~fnEvents[i].done

C13_Witness ==
    /\ fnPc = "emitted"
    /\ Len(fnIn.choices) = 2
    /\ fnIn.choices[1].message.content = StrContent(<<"Prose">>)
    /\ fnIn.choices[1].message.tool_calls = ListCalls(<<UpstreamCall, SecondCall>>)
    /\ fnIn.choices[2].message.content = NullContent
    /\ fnIn.choices[2].message.tool_calls = AbsentCalls
    /\ fnIn.usage.k = "dict"
    /\ Len(fnEvents) = 9
    /\ EventKind(fnEvents[2]) = "content"
    /\ EventKind(fnEvents[4]) = "call"
    /\ EventKind(fnEvents[8]) = "usage"

\* the tool calls of a result, choice after choice, and the events that carry
\* a tool-call delta
AllCalls(rj) == Flatten([k \in 1..Len(rj.choices) |-> CallsOrEmpty(rj.choices[k].message)])

CallEvents(events) == SelectSeq(events, LAMBDA e : EventKind(e) = "call")

EmptyArguments == [t |-> "str", v |-> ""]

\* C14 as stated: each tool call of the result is emitted as two consecutive
\* chunks, the first introducing the call's id and name with empty arguments,
\* the second carrying the full arguments string.
C14_TwoChunksPerCall ==
    fnPc = "emitted" =>
        /\ Len(CallEvents(fnEvents)) = 2 * Len(AllCalls(fnIn))
        /\ \A j \in 1..Len(AllCalls(fnIn)) :
              /\ CallEvents(fnEvents)[2 * j - 1].delta.tool_calls.l[1].id =
                    AllCalls(fnIn)[j].id
              /\ CallEvents(fnEvents)[2 * j - 1].delta.tool_calls.l[1].function.name =
                    AllCalls(fnIn)[j].function.name
              /\ CallEvents(fnEvents)[2 * j - 1].delta.tool_calls.l[1].function.arguments =
                    EmptyArguments
              /\ CallEvents(fnEvents)[2 * j].delta.tool_calls.l[1].function.arguments =
                    AllCalls(fnIn)[j].function.arguments

\* C14 amended: each tool call of the result is emitted as exactly one chunk,
\* which carries the call's id, its type, its name and its full arguments
\* string together.
C14_OneChunkPerCall ==
    fnPc = "emitted" =>
        /\ Len(CallEvents(fnEvents)) = Len(AllCalls(fnIn))
        /\ \A j \in 1..Len(AllCalls(fnIn)) :
              /\ Len(CallEvents(fnEvents)[j].delta.tool_calls.l) = 1
              /\ CallEvents(fnEvents)[j].delta.tool_calls.l[1].id = AllCalls(fnIn)[j].id
              /\ CallEvents(fnEvents)[j].delta.tool_calls.l[1].type = "function"
              /\ CallEvents(fnEvents)[j].delta.tool_calls.l[1].function.name =
                    AllCalls(fnIn)[j].function.name
              /\ CallEvents(fnEvents)[j].delta.tool_calls.l[1].function.arguments =
                    AllCalls(fnIn)[j].function.arguments
              /\ CallEvents(fnEvents)[j].delta.tool_calls.l[1].function.arguments #
                    EmptyArguments

C14_Witness ==
    /\ fnPc = "emitted"
    /\ Len(fnIn.choices) = 1
    /\ fnIn.choices[1].message.tool_calls = ListCalls(<<UpstreamCall, SecondCall>>)
    /\ Len(CallEvents(fnEvents)) = 2
    /\ CallEvents(fnEvents)[2].delta.tool_calls.l[1].function = SecondCall.function

\* the text is one tool call: a JSON object with a name
IsCallText(text) == parse_single_tool_call(text, 0).found

\* a successful extraction consumes the whole content: the content is nothing
\* but <tools> blocks, or it is one tool-call object (on one line or on
\* several), or each of its lines is a tool call
ConsumedAll(content) ==
    \/ Strip(ToolsSub(content)) = <<>>
    \/ IsCallText(content)
    \/ \A k \in 1..Len(SplitLines(Strip(content))) :
          \/ Strip(SplitLines(Strip(content))[k]) = <<>>
          \/ IsCallText(SplitLines(Strip(content))[k])

\* the content is one tool-call object written over several lines
BareOverLines(content) ==
    /\ IsCallText(content)
    /\ Len(SplitLines(Strip(content))) > 1

\* C15 as stated: whenever a successful extraction consumed the entire content,
\* a single tool-call object spanning several lines included, the residual
\* content is null, never an empty string and never the original text.
C15_ConsumedAllMeansNull ==
    (fnPc = "extracted" /\ ExtractOutput # <<>> /\ ConsumedAll(ExtractInput)) =>
        fnOut.choices[1].message.content = NullContent

\* the same without the object written over several lines (what the cleanup
\* does get right)
ConsumedAllOnWholeLines ==
    (/\ fnPc = "extracted"
     /\ ExtractOutput # <<>>
     /\ ConsumedAll(ExtractInput)
     /\ ~BareOverLines(ExtractInput)) =>
        fnOut.choices[1].message.content = NullContent

\* none of the three strategies finds a tool call in the content
YieldsNoCalls(content) ==
    /\ StrategyTagged(content) = <<>>
    /\ StrategyBare(content) = <<>>
    /\ StrategyMultiLine(content) = <<>>

\* C16: if extraction yields zero calls for a choice, the extractor returns the
\* choice unchanged: the content identical to the original, no tool_calls
\* added, finish_reason untouched.
C16_NoCallsNoChange ==
    (fnPc = "extracted" /\ YieldsNoCalls(ExtractInput)) =>
        /\ fnOut.choices[1].message.content = fnIn.choices[1].message.content
        /\ fnOut.choices[1].message.tool_calls = AbsentCalls
        /\ fnOut.choices[1].finish_reason = fnIn.choices[1].finish_reason
        /\ fnOut = fnIn

C16_Witness ==
    /\ fnPc = "extracted"
    /\ ExtractInput = <<"OPEN", "Prose", "CLOSE", "NoName">>
    /\ fnOut.choices[1].message.content = StrContent(<<"OPEN", "Prose", "CLOSE", "NoName">>)
    /\ fnOut.choices[1].finish_reason = "stop"

\* the call to the upstream raised (connection refused, timeout): in a stream
\* the handler ends in "failed"; in a buffered call it returns with no answer
UpstreamFailed ==
    \/ pc = "failed"
    \/ /\ pc = "done"
       /\ Len(forwarded) = 1
       /\ forwarded[1].by # "stream_response"
       /\ answer = NoAnswer

\* a gateway-style error response with a minimal JSON error body
IsGatewayError(r) ==
    /\ r.status \in {502, 504}
    /\ r.mimetype = "application/json"
    /\ r.form = "bytes"
    /\ Parses(r.raw)
    /\ r.raw.val.object = "error"

ForwardedUnchanged ==
    /\ forwarded = <<Upstream("forward_request", request.method, request.path,
                              request.body)>>
    /\ (pc = "done" /\ answer # NoAnswer) =>
          /\ response.status = answer[1]
          /\ response.form = "bytes"
          /\ response.raw = answer[2]

\* the request went through the loop guard and one of the chat handlers
ThroughPipeline ==
    \/ AbortReturned
    \/ /\ Len(forwarded) = 1
       /\ forwarded[1].by \in {"stream_response", "forward_fix_and_rewrap_sse",
                                "forward_with_body_and_fix"}
       /\ forwarded[1].method = "POST"
       /\ forwarded[1].path = request.path

\* C19 as stated: only the chat-completion path goes through the pipeline;
\* every request on any other path, for every HTTP method, is forwarded to the
\* same path of the upstream and its response returned without the pipeline.
C19_OnlyChatCompletionsPipelined ==
    (pc # "proxy" /\ request.path # "chat/completions") => ForwardedUnchanged

\* C19 amended: an OPTIONS request on any path is answered 204 by the proxy
\* itself; of the other requests those on chat/completions and on responses go
\* through the pipeline, and every request on any other path is forwarded with
\* its method to the same path of the upstream and the upstream's status and
\* body are returned without the pipeline.
C19_DispatchByPath ==
    pc # "proxy" =>
        IF request.method = "OPTIONS"
        THEN forwarded = <<>> /\ response.status = 204 /\ response.raw = NoBytes
        ELSE IF request.path \in {"chat/completions", "responses"}
        THEN ThroughPipeline
        ELSE ForwardedUnchanged

C19_Witness ==
    /\ request.path = "models"
    /\ request.method = "DELETE"
    /\ pc = "done"
    /\ answer[1] = 200
    /\ answer[2].val.extras
    /\ response.raw = answer[2]

\* a request on the responses path served by the SSE re-wrap
ResponsesPathRewrapped ==
    /\ request.path = "responses"
    /\ pc = "done"
    /\ response.form = "sse"

\* C18 as stated: no unhandled exception crosses the proxy boundary: whatever
\* the request (a chat body that is not an object, messages with entries that
\* are not objects) and whatever the upstream result (tool calls without a
\* function field), the client gets a normal response or a gateway error
\* response, never the framework's answer to an unhandled fault and never a
\* response cut off midway.
C18_NoUnhandledFault ==
    /\ pc \notin {"fault", "dropped"}
    /\ response # InternalServerError

\* the handler of a chat request has an upstream request open
InFlight ==
    pc \in {"forward_with_body_and_fix", "forward_fix_and_rewrap_sse", "stream_response"}

\* C20 as stated: if the client disconnects while its request is being served,
\* while chunks are streamed or while a buffered upstream call is pending, the
\* handler's upstream request is eventually closed, and no further upstream
\* request is issued for it.
C20_DisconnectClosesUpstream ==
    /\ (client = "gone" /\ InFlight) ~> ~InFlight
    /\ [](Len(forwarded) <= 1)

\* the same for the streaming passthrough alone (where the "with" block does
\* close the upstream response)
StreamDisconnectClosesUpstream ==
    /\ (client = "gone" /\ pc = "stream_response") ~> (pc # "stream_response")
    /\ [](Len(forwarded) <= 1)

\* what a request handled alone gets: the loop guard's decision, the handler,
\* the forwarded body and the response made of the upstream's answer, each a
\* function of the request and the startup configuration
HandledAsAlone(t) ==
    /\ t.pc \in {"proxy", "guard"} => (t.forwarded = <<>> /\ t.response = NoResponse)
    /\ t.pc \notin {"proxy", "guard"} =>
          IF LoopGuardFires(t.request.body, MAX_TOOL_CALLS)
          THEN /\ t.pc = "done"
               /\ t.forwarded = <<>>
               /\ t.response = Response(200, "application/json", "bytes",
                                        JsonDumps(LoopAbort), <<>>)
          ELSE /\ t.pc \in {"force", "strip", "dispatch"} => t.forwarded = <<>>
               /\ t.pc \notin {"force", "strip", "dispatch"} =>
                     t.forwarded = <<UpstreamAt(VLLM_URL, Handler(t.request.body),
                                                ForwardedBody(t.request.body))>>
               /\ (t.pc = "done" /\ t.answer # NoAnswer) =>
                     t.response =
                        IF Handler(t.request.body) = "forward_with_body_and_fix"
                        THEN forward_with_body_and_fix(ForwardedBody(t.request.body),
                                                       t.answer[1], t.answer[2])
                        ELSE forward_fix_and_rewrap_sse(ForwardedBody(t.request.body),
                                                        t.answer[1], t.answer[2])

\* C21: requests handled at the same time share no mutable state: under every
\* interleaving each request's loop-guard decision, mode, forwarded body and
\* extracted calls are what they are when it is handled alone; the loop-guard
\* count comes from the request's own messages; the ceiling and the upstream
\* URL are never written after startup.
C21_NoInterference ==
    /\ [](\A c \in Connections : HandledAsAlone(conn[c]))
    /\ [][MAX_TOOL_CALLS' = MAX_TOOL_CALLS /\ VLLM_URL' = VLLM_URL]_vars

C21_Witness ==
    /\ MAX_TOOL_CALLS = 1
    /\ conn[1].request.body.messages = <<ToolTurn>>
    /\ conn[1].request.body.tools = "some"
    /\ conn[1].pc = "done"
    /\ conn[1].forwarded = <<>>
    /\ conn[2].request.body.messages = <<>>
    /\ conn[2].request.body.tools = "some"
    /\ conn[2].request.body.stream = "true"
    /\ conn[2].pc = "forward_fix_and_rewrap_sse"
    /\ conn[2].forwarded[1].body.stream = "false"

\* C22: the chat request forwarded upstream equals the inbound request on every
\* field other than stream and stream_options: model, tools and the
\* pass-through fields are unchanged and messages has the same elements in the
\* same order.
C22_ForwardedEqualsInbound ==
    (ChatRequest /\ Proceeded) =>
        /\ forwarded[1].body.messages = request.body.messages
        /\ forwarded[1].body.tools = request.body.tools
        /\ forwarded[1].body.extras = request.body.extras
        /\ [forwarded[1].body EXCEPT !.stream = request.body.stream,
                                    !.stream_options = request.body.stream_options]
              = request.body

C22_Witness ==
    /\ ChatRequest
    /\ Proceeded
    /\ request.body.tools = "some"
    /\ request.body.stream = "true"
    /\ request.body.stream_options
    /\ request.body.extras
    /\ Len(request.body.messages) = 2
    /\ request.body.messages[1].role = "user"
    /\ request.body.messages[2].role = "tool"
    /\ forwarded[1].body # request.body
    /\ forwarded[1].body.messages = request.body.messages

\* the call came from a candidate object that carries its own "id"
FromCandidateWithId(call) == call.function.name = "get_time"

\* the call's id is unlike the id of every other call of the response
DistinctId(calls, i) ==
    \A j \in 1..Len(calls) : j # i => calls[j].id # calls[i].id

\* C23 as stated: a ToolCall's id is generated only if the candidate omitted
\* one: a candidate with its own id keeps it, and a candidate without id gets
\* a fresh identifier distinct from those of the other calls of the response.
C23_IdKeptIfPresent ==
    fnPc = "extracted" =>
        \A i \in 1..Len(ExtractOutput) :
            IF FromCandidateWithId(ExtractOutput[i])
            THEN ExtractOutput[i].id = CandidateId
            ELSE /\ ExtractOutput[i].id.src = "uuid"
                 /\ DistinctId(ExtractOutput, i)

\* C23 amended: every ToolCall the extractor produces gets a freshly generated
\* identifier, whether or not the candidate object carried an id of its own
\* (which is dropped); the identifiers of the calls of one response are
\* distinct.
C23_IdAlwaysFresh ==
    fnPc = "extracted" =>
        \A i \in 1..Len(ExtractOutput) :
            /\ ExtractOutput[i].id.src = "uuid"
            /\ ExtractOutput[i].id # CandidateId
            /\ DistinctId(ExtractOutput, i)

C23_Witness ==
    /\ fnPc = "extracted"
    /\ ExtractInput = <<"CallId", "NL", "CallId">>
    /\ Len(ExtractOutput) = 2
    /\ FromCandidateWithId(ExtractOutput[1])
    /\ FromCandidateWithId(ExtractOutput[2])
    /\ ExtractOutput[1].id.src = "uuid"
    /\ ExtractOutput[1].id # CandidateId
    /\ ExtractOutput[1].id # ExtractOutput[2].id

\* the residual content the extractor left, as text (null is no text)
Residual == ContentOrEmpty(fnOut.choices[1].message)

\* a <tools> block one of whose lines is a tool call
BlockYieldsCall(block) ==
    \E k \in 1..Len(SplitLines(Strip(block))) : IsCallText(SplitLines(Strip(block))[k])

\* the text without the <tools> blocks that yielded a call
WithoutConsumedBlocks(s) ==
    Flatten([i \in 1..Len(s) |->
                IF \E k \in 1..Len(ToolsMatches(s)) :
                      /\ ToolsMatches(s)[k][1] <= i
                      /\ i <= ToolsMatches(s)[k][2]
                      /\ BlockYieldsCall(SubSeq(s, ToolsMatches(s)[k][1] + 1,
                                                ToolsMatches(s)[k][2] - 1))
                THEN <<>> ELSE <<s[i]>>])

\* the lines that are not tool calls, joined again
WithoutCallLines(s) ==
    JoinLines(SelectSeq(SplitLines(Strip(s)), LAMBDA line : ~IsCallText(line)))

\* the content minus exactly what the winning strategy consumed
Unconsumed(content) ==
    IF StrategyTagged(content) # <<>> THEN Strip(WithoutConsumedBlocks(content))
    ELSE IF StrategyBare(content) # <<>> THEN <<>>
    ELSE Strip(WithoutCallLines(content))

\* C24 as stated: after a successful extraction the residual content is the
\* original content minus exactly the consumed material: a line or a tagged
\* block that did not produce one of the returned calls (a bare tool-call line
\* after a tagged block that won, a tagged block without a valid candidate) is
\* still in the residual content, in its original order.
C24_ResidualIsUnconsumed ==
    (fnPc = "extracted" /\ ExtractOutput # <<>>) => Residual = Unconsumed(ExtractInput)

\* the same for content without <tools> markers that is not one object over
\* several lines (where the line-wise cleanup removes what was consumed)
ResidualOfPlainLines ==
    (/\ fnPc = "extracted"
     /\ ExtractOutput # <<>>
     /\ \A i \in 1..Len(ExtractInput) : ExtractInput[i] \notin {"OPEN", "CLOSE"}
     /\ ~BareOverLines(ExtractInput)) =>
        Residual = Unconsumed(ExtractInput)

\* the candidate is valid: it is JSON, an object, and has a name
ValidCandidate(c) == JsonLoads(c).kind = "dict" /\ JsonLoads(c).hasName

\* the candidates each strategy looks at, in order of appearance
TaggedCandidates(content) ==
    Flatten([k \in 1..Len(ToolsFindAll(content)) |->
                SplitLines(Strip(ToolsFindAll(content)[k]))])

BareCandidates(content) == <<Strip(content)>>

LineCandidates(content) == SplitLines(Strip(content))

HasValid(cands) == \E k \in 1..Len(cands) : ValidCandidate(cands[k])

\* the first of the three candidate lists that holds a valid candidate, or
\* the last
FirstWithValid(t, b, l) ==
    IF HasValid(t) THEN t ELSE IF HasValid(b) THEN b ELSE l

\* the candidates of the strategy whose calls are returned
WinningCandidates(content) ==
    FirstWithValid(TaggedCandidates(content), BareCandidates(content),
                   LineCandidates(content))

NamesOf(valid) == [k \in 1..Len(valid) |-> JsonLoads(valid[k]).name]

\* the names of the valid candidates, in order
ValidNames(cands) == NamesOf(SelectSeq(cands, ValidCandidate))

ProjectedOnce ==
    \/ response.form = "bytes" /\ response.events = <<>>
    \/ response.form = "sse" /\ response.raw = NoBytes /\ response.events # <<>>

\* C26: the proxy never retries: each inbound request causes at most one
\* request to the upstream, also after an upstream failure, and each upstream
\* response is projected into exactly one client response (a JSON body or an
\* SSE chunk sequence).
C26_NoRetry ==
    /\ [](Len(forwarded) <= 1)
    /\ []((pc = "done" /\ answer # NoAnswer) => ProjectedOnce)
    /\ [][/\ forwarded # <<>> => forwarded' = forwarded
          /\ response # NoResponse => response' = response
          /\ answer # NoAnswer => answer' = answer]_vars

C26_Witness ==
    /\ ChatRequest
    /\ UpstreamFailed
    /\ pc = "done"
    /\ forwarded[1].by = "forward_with_body_and_fix"
    /\ Len(forwarded) = 1
    /\ response = GatewayError

\* what lines 199-211 leave in a choice, given the calls they extracted
FinishFollowsCalls(before, after, calls) ==
    IF calls # <<>>
    THEN /\ after.finish_reason = "tool_calls"
         /\ after.message.tool_calls.k = "list"
         /\ after.message.tool_calls.l # <<>>
         /\ after.message.tool_calls.l = calls
    ELSE /\ after.finish_reason = before.finish_reason
         /\ after.message.tool_calls = before.message.tool_calls

\* C27: after extract_tools_from_content, for every choice: if at least one
\* call was extracted from its content then finish_reason is "tool_calls" and
\* tool_calls is the non-empty list of the extracted calls; if none was
\* extracted, finish_reason keeps the upstream's value.
C27_FinishReasonFollowsCalls ==
    fnPc = "extracted" =>
        \A i \in 1..Len(fnOut.choices) :
            FinishFollowsCalls(fnIn.choices[i], fnOut.choices[i],
                               ExtractedCalls(fnIn.choices[i].message.content.s))

C27_Witness ==
    /\ fnPc = "extracted"
    /\ ExtractInput = <<"CallObj", "NL", "JHead">>
    /\ fnIn.choices[1].finish_reason = "length"
    /\ fnOut.choices[1].finish_reason = "tool_calls"
    /\ Len(ExtractOutput) = 1

\* the content is absent, null, empty or whitespace only
BlankContent(content) ==
    content.k # "str" \/ \A i \in 1..Len(content.s) : content.s[i] = "NL"

\* the message already carries a non-empty structured tool_calls list
HasStructuredCalls(msg) == msg.tool_calls.k = "list" /\ msg.tool_calls.l # <<>>

\* C28: a choice whose message already carries a non-empty structured
\* tool_calls list, or whose content is absent or blank, is left entirely
\* unchanged by the extractor (content, tool_calls, finish_reason); and
\* applying the extractor twice gives what applying it once gives.
C28_ExtractorSkipsAndIsIdempotent ==
    /\ [](fnPc \in {"extracted", "extracted-twice"} =>
             \A i \in 1..Len(fnIn.choices) :
                 (\/ HasStructuredCalls(fnIn.choices[i].message)
                  \/ BlankContent(fnIn.choices[i].message.content)) =>
                     fnOut.choices[i] = fnIn.choices[i])
    /\ [][(fnPc = "extracted" /\ fnPc' = "extracted-twice") => fnOut' = fnOut]_vars

C28_Witness ==
    /\ fnPc = "extracted-twice"
    /\ Len(fnIn.choices) = 2
    /\ fnIn.choices[1].message.content = StrContent(<<"JHead", "NL", "JTail">>)
    /\ fnIn.choices[1].message.tool_calls = ListCalls(<<>>)
    /\ fnOut.choices[1].message.content = StrContent(<<"JHead", "NL", "JTail">>)
    /\ Len(fnOut.choices[1].message.tool_calls.l) = 1
    /\ fnIn.choices[2].message.content = StrContent(<<"OPEN", "CallObj", "CLOSE">>)
    /\ fnIn.choices[2].message.tool_calls = ListCalls(<<UpstreamCall>>)
    /\ fnOut.choices[2] = fnIn.choices[2]

\* the upstream returned an HTTP response to a buffered chat-completion call
UpstreamResponded ==
    /\ ChatRequest
    /\ pc = "done"
    /\ answer # NoAnswer

\* C29 as stated: whenever the upstream returned an HTTP response to a
\* chat-completion request, the status the proxy returns equals the upstream's
\* status: an upstream error status is never turned into 200, in the JSON
\* path, the SSE re-wrap path and the streaming passthrough alike.
C29_StatusIsUpstreams ==
    UpstreamResponded => response.status = answer[1]

\* the same for the JSON path alone (where resp.status_code is passed on)
StatusKeptInJsonPath ==
    (UpstreamResponded /\ forwarded[1].by = "forward_with_body_and_fix") =>
        response.status = answer[1]

\* an upstream error answered through the SSE re-wrap: what the client gets
ErrorRewrappedAs200 ==
    /\ UpstreamResponded
    /\ forwarded[1].by = "forward_fix_and_rewrap_sse"
    /\ answer[1] = 500
    /\ response.status = 200
    /\ response.events = <<DoneEvent>>

\* the body cannot be parsed (it is not JSON) or cannot be processed as a
\* completion (it is JSON, but no object)
Unprocessable(raw) == raw.fmt \in {"garbage", "list"}

\* the upstream answered a buffered chat-completion call
BufferedAnswered ==
    /\ UpstreamResponded
    /\ forwarded[1].by \in {"forward_with_body_and_fix", "forward_fix_and_rewrap_sse"}

\* C30: if the upstream answers a buffered chat-completion call with a body
\* that cannot be parsed or processed as a JSON completion, the proxy returns
\* the upstream's raw body bytes with the upstream's status, unmodified, and
\* not an error response, in the JSON path and the SSE re-wrap path alike.
C30_BadBodyReturnedRaw ==
    (BufferedAnswered /\ Unprocessable(answer[2])) =>
        /\ response.form = "bytes"
        /\ response.raw = answer[2]
        /\ response.status = answer[1]
        /\ response.events = <<>>
        /\ response # GatewayError

C30_Witness ==
    /\ BufferedAnswered
    /\ forwarded[1].by = "forward_fix_and_rewrap_sse"
    /\ answer = <<200, JsonList>>
    /\ response.status = 200
    /\ response.raw = JsonList
    /\ response.mimetype # "text/event-stream"

====
